---- MODULE Spec2Model ----
(***************************************************************************)
(* A model of the QR Code generator library (python/qrcodegen.py) and of   *)
(* its line-oriented worker (python/qrcodegen-worker.py).                  *)
(*                                                                         *)
(* The library is a set of pure functions.  Each specification below draws *)
(* the arguments of one entry point from a bounded set in its initial      *)
(* states and then applies the entry point in one action.                  *)
(*                                                                         *)
(* A segment is modelled at two levels of detail.  Version selection and   *)
(* ECC boosting read only a segment's mode, its character count and the    *)
(* LENGTH of its bit data, so they are written over "shapes"               *)
(* [mode, numchars, bitlen]; the bit-exact paths (bit buffer, codewords,   *)
(* module grid) work on segments that carry the bit sequence itself, and   *)
(* obtain their shape with ShapeOf.                                        *)
(***************************************************************************)
EXTENDS Integers, Sequences, FiniteSets, TLC

VARIABLES
    pc,      \* position of the modelled caller: "call", "done", "rerun", ...
    args,    \* the arguments of the entry point under study
    res,     \* what the entry point returned or raised
    res2     \* the result of a second call derived from res (re-encoding)

vars == <<pc, args, res, res2>>

(***************************************************************************)
(* Bounds of the model.                                                    *)
(***************************************************************************)
\* Version endpoints (minversion, maxversion) are drawn from 1, 1+s, 1+2s, ...
VersionStride == 3
\* Custom segments have numchars in {0, CharStep, 2*CharStep, ...}
CharStep == 256
MaxCharSteps == 12
\* encode_binary is called with 0..MaxBinaryLen bytes
MaxBinaryLen == 2954
\* encode_text is called with texts whose last run has 1..MaxTextLen characters
MaxTextLen == 2954
\* Bit-exact encodings take texts of 0, PayloadStep, ..., MaxPayloadSteps * PayloadStep
\* characters and versions up to MaxGridVersion
PayloadStep == 7
MaxPayloadSteps == 2
MaxGridVersion == 2
\* The worker reads up to MaxRequests requests before the terminator
MaxRequests == 2
\* Callers ask for modules up to Border places outside the grid, as print_qr
\* of the demo does
Border == 4
\* The segment factories are called with texts of 0..MaxSegLen characters
MaxSegLen == 7
\* append_bits is called with bit counts -1..MaxAppend
MaxAppend == 33
\* Error correction is added for the versions 1..MaxEccVersion
MaxEccVersion == 7
\* Field elements are multiplied by 0, MulStride, 2 * MulStride, ... and a few
\* more
MulStride == 17
\* Remainders are computed of blocks of up to MaxBlockLen bytes
MaxBlockLen == 40
\* The largest version whose symbol SpecDraw constructs with every forced mask
MaxDrawVersion == 7
\* SpecBalance takes every BalanceStride-th version
BalanceStride == 13

(***************************************************************************)
(* Constants and tables.                                                   *)
(***************************************************************************)
MIN_VERSION == 1
MAX_VERSION == 40

\* QrCode.Ecc: (ordinal, formatbits)
LOW      == [ordinal |-> 0, formatbits |-> 1]
MEDIUM   == [ordinal |-> 1, formatbits |-> 0]
QUARTILE == [ordinal |-> 2, formatbits |-> 3]
HIGH     == [ordinal |-> 3, formatbits |-> 2]
Ecc == {LOW, MEDIUM, QUARTILE, HIGH}

\* Indexed [ecl.ordinal + 1][version + 1]; version 0 is padding.
ECC_CODEWORDS_PER_BLOCK == <<
    <<-1,  7, 10, 15, 20, 26, 18, 20, 24, 30, 18, 20, 24, 26, 30, 22, 24, 28, 30, 28, 28, 28, 28, 30, 30, 26, 28, 30, 30, 30, 30, 30, 30, 30, 30, 30, 30, 30, 30, 30, 30>>,
    <<-1, 10, 16, 26, 18, 24, 16, 18, 22, 22, 26, 30, 22, 22, 24, 24, 28, 28, 26, 26, 26, 26, 28, 28, 28, 28, 28, 28, 28, 28, 28, 28, 28, 28, 28, 28, 28, 28, 28, 28, 28>>,
    <<-1, 13, 22, 18, 26, 18, 24, 18, 22, 20, 24, 28, 26, 24, 20, 30, 24, 28, 28, 26, 30, 28, 30, 30, 30, 30, 28, 30, 30, 30, 30, 30, 30, 30, 30, 30, 30, 30, 30, 30, 30>>,
    <<-1, 17, 28, 22, 16, 22, 28, 26, 26, 24, 28, 24, 28, 22, 24, 24, 30, 28, 28, 26, 28, 30, 24, 30, 30, 30, 30, 30, 30, 30, 30, 30, 30, 30, 30, 30, 30, 30, 30, 30, 30>> >>

NUM_ERROR_CORRECTION_BLOCKS == <<
    <<-1, 1, 1, 1, 1, 1, 2, 2, 2, 2, 4,  4,  4,  4,  4,  6,  6,  6,  6,  7,  8,  8,  9,  9, 10, 12, 12, 12, 13, 14, 15, 16, 17, 18, 19, 19, 20, 21, 22, 24, 25>>,
    <<-1, 1, 1, 1, 2, 2, 4, 4, 4, 5, 5,  5,  8,  9,  9, 10, 10, 11, 13, 14, 16, 17, 17, 18, 20, 21, 23, 25, 26, 28, 29, 31, 33, 35, 37, 38, 40, 43, 45, 47, 49>>,
    <<-1, 1, 1, 2, 2, 4, 4, 6, 6, 8, 8,  8, 10, 12, 16, 12, 17, 16, 18, 21, 20, 23, 23, 25, 27, 29, 34, 34, 35, 38, 40, 43, 45, 48, 51, 53, 56, 59, 62, 65, 68>>,
    <<-1, 1, 1, 2, 4, 4, 4, 5, 6, 8, 8, 11, 11, 16, 16, 18, 16, 19, 21, 25, 25, 25, 34, 30, 32, 35, 37, 40, 42, 45, 48, 51, 54, 57, 60, 63, 66, 70, 74, 77, 81>> >>

\* QrSegment.Mode: (modebits, charcounts)
NUMERIC      == [modebits |-> 1, charcounts |-> <<10, 12, 14>>]
ALPHANUMERIC == [modebits |-> 2, charcounts |-> << 9, 11, 13>>]
BYTE         == [modebits |-> 4, charcounts |-> << 8, 16, 16>>]
KANJI        == [modebits |-> 8, charcounts |-> << 8, 10, 12>>]
ECI          == [modebits |-> 7, charcounts |-> << 0,  0,  0>>]
Mode == {NUMERIC, ALPHANUMERIC, BYTE, KANJI, ECI}

\* Mode.num_char_count_bits(ver)
num_char_count_bits(mode, ver) == mode.charcounts[((ver + 7) \div 17) + 1]

(***************************************************************************)
(* Capacity functions.                                                     *)
(***************************************************************************)
\* QrCode._get_num_raw_data_modules(ver), for MIN_VERSION <= ver <= MAX_VERSION
get_num_raw_data_modules(ver) ==
    LET base     == (16 * ver + 128) * ver + 64
        numalign == ver \div 7 + 2
    IN  IF ver >= 2
        THEN base - ((25 * numalign - 10) * numalign - 55)
                  - (IF ver >= 7 THEN 36 ELSE 0)
        ELSE base

\* A plausible slip: the ECC codewords of ONE block are subtracted, instead of
\* those of all blocks.
get_num_data_codewords_OneBlock(ver, ecl) ==
    get_num_raw_data_modules(ver) \div 8
        - ECC_CODEWORDS_PER_BLOCK[ecl.ordinal + 1][ver + 1]

\* QrCode._get_num_data_codewords(ver, ecl)
get_num_data_codewords(ver, ecl) ==
    get_num_raw_data_modules(ver) \div 8
        - ECC_CODEWORDS_PER_BLOCK[ecl.ordinal + 1][ver + 1]
          * NUM_ERROR_CORRECTION_BLOCKS[ecl.ordinal + 1][ver + 1]

(***************************************************************************)
(* Segment shapes and QrSegment.get_total_bits.                            *)
(***************************************************************************)
\* The value get_total_bits returns when a character count does not fit.
None == -1

\* The loop body of get_total_bits, from segment index i with running sum acc.
RECURSIVE TotalBitsFrom(_, _, _, _)
TotalBitsFrom(segs, version, i, acc) ==
    IF i > Len(segs) THEN acc
    ELSE LET seg    == segs[i]
             ccbits == num_char_count_bits(seg.mode, version)
         IN  IF seg.numchars >= 2 ^ ccbits
             THEN None
             ELSE TotalBitsFrom(segs, version, i + 1, acc + 4 + ccbits + seg.bitlen)

\* A plausible slip: the character counts are not compared with the width of
\* their field, and the sum is returned in every case.
RECURSIVE TotalBitsFrom_NoOverflow(_, _, _, _)
TotalBitsFrom_NoOverflow(segs, version, i, acc) ==
    IF i > Len(segs) THEN acc
    ELSE TotalBitsFrom_NoOverflow(segs, version, i + 1,
             acc + 4 + num_char_count_bits(segs[i].mode, version) + segs[i].bitlen)
get_total_bits_NoOverflow(segs, version) == TotalBitsFrom_NoOverflow(segs, version, 1, 0)

\* QrSegment.get_total_bits(segs, version) over shapes
get_total_bits(segs, version) == TotalBitsFrom(segs, version, 1, 0)

(***************************************************************************)
(* QrCode.encode_segments: argument check, version search, ECC boost.      *)
(***************************************************************************)
\* The message of a DataTooLongError: "Segment too long", or "Data length = <used>
\* bits, Max capacity = <cap> bits" (text "Data length", with the two numbers).
SegmentTooLongMsg == [text |-> "Segment too long", used |-> None, cap |-> None]
DataLengthMsg(used, cap) == [text |-> "Data length", used |-> used, cap |-> cap]

Raised(kind, msg) ==
    [status |-> kind, msg |-> msg, version |-> 0, ecl |-> LOW, datausedbits |-> None]

\* The guard of encode_segments (the condition under which ValueError is raised).
InvalidValue(minversion, maxversion, mask) ==
    \/ ~(MIN_VERSION <= minversion /\ minversion <= maxversion /\ maxversion <= MAX_VERSION)
    \/ ~(-1 <= mask /\ mask <= 7)

\* A plausible slip: the search gives up at the first version that does not fit.
FindVersion_NoRetry(segs, ecl, version, maxversion) ==
    LET datacapacitybits == get_num_data_codewords(version, ecl) * 8
        datausedbits     == get_total_bits(segs, version)
    IN  IF datausedbits # None /\ datausedbits <= datacapacitybits
        THEN [status |-> "ok", msg |-> SegmentTooLongMsg, version |-> version,
              ecl |-> ecl, datausedbits |-> datausedbits]
        ELSE Raised("DataTooLongError",
                    IF datausedbits # None
                    THEN DataLengthMsg(datausedbits, datacapacitybits)
                    ELSE SegmentTooLongMsg)

\* A plausible slip: the search starts one version too high.
RECURSIVE FindVersion_SkipFirst(_, _, _, _)
FindVersion_SkipFirst(segs, ecl, version, maxversion) ==
    LET v                == IF version < maxversion THEN version + 1 ELSE version
        datacapacitybits == get_num_data_codewords(v, ecl) * 8
        datausedbits     == get_total_bits(segs, v)
    IN  IF datausedbits # None /\ datausedbits <= datacapacitybits
        THEN [status |-> "ok", msg |-> SegmentTooLongMsg, version |-> v,
              ecl |-> ecl, datausedbits |-> datausedbits]
        ELSE IF v >= maxversion
        THEN Raised("DataTooLongError",
                    IF datausedbits # None
                    THEN DataLengthMsg(datausedbits, datacapacitybits)
                    ELSE SegmentTooLongMsg)
        ELSE FindVersion_SkipFirst(segs, ecl, v, maxversion)

\* The loop "for version in range(minversion, maxversion + 1)", entered at version.
RECURSIVE FindVersion(_, _, _, _)
FindVersion(segs, ecl, version, maxversion) ==
    LET datacapacitybits == get_num_data_codewords(version, ecl) * 8
        datausedbits     == get_total_bits(segs, version)
    IN  IF datausedbits # None /\ datausedbits <= datacapacitybits
        THEN [status |-> "ok", msg |-> SegmentTooLongMsg, version |-> version,
              ecl |-> ecl, datausedbits |-> datausedbits]
        ELSE IF version >= maxversion
        THEN Raised("DataTooLongError",
                    IF datausedbits # None
                    THEN DataLengthMsg(datausedbits, datacapacitybits)
                    ELSE SegmentTooLongMsg)
        ELSE FindVersion(segs, ecl, version + 1, maxversion)

\* One iteration of "for newecl in (MEDIUM, QUARTILE, HIGH)".
BoostStep(ecl, newecl, version, datausedbits, boostecl) ==
    IF boostecl /\ datausedbits <= get_num_data_codewords(version, newecl) * 8
    THEN newecl ELSE ecl

\* A plausible slip: the loop boosts whether or not boostecl is set.
BoostEcl_IgnoreFlag(ecl, version, datausedbits, boostecl) ==
    BoostStep(BoostStep(BoostStep(ecl, MEDIUM, version, datausedbits, TRUE),
                        QUARTILE, version, datausedbits, TRUE),
              HIGH, version, datausedbits, TRUE)

\* A plausible slip: HIGH is never tried.
BoostEcl_NoHigh(ecl, version, datausedbits, boostecl) ==
    BoostStep(BoostStep(ecl, MEDIUM, version, datausedbits, boostecl),
              QUARTILE, version, datausedbits, boostecl)

\* The boost loop of encode_segments.
BoostEcl(ecl, version, datausedbits, boostecl) ==
    BoostStep(BoostStep(BoostStep(ecl, MEDIUM, version, datausedbits, boostecl),
                        QUARTILE, version, datausedbits, boostecl),
              HIGH, version, datausedbits, boostecl)

Min(a, b) == IF a < b THEN a ELSE b

\* len(bb) after "for seg in segs: append mode, count, data" (lines 106-110).
RECURSIVE ConcatBitsFrom(_, _, _, _)
ConcatBitsFrom(segs, version, i, acc) ==
    IF i > Len(segs) THEN acc
    ELSE ConcatBitsFrom(segs, version, i + 1,
             acc + 4 + num_char_count_bits(segs[i].mode, version) + segs[i].bitlen)

\* Whether every append_bits of the concatenation is accepted (n >= 0, val >> n = 0).
AppendsAccepted(segs, version) ==
    \A i \in 1..Len(segs) :
        /\ segs[i].mode.modebits \div (2 ^ 4) = 0
        /\ num_char_count_bits(segs[i].mode, version) >= 0
        /\ segs[i].numchars \div (2 ^ num_char_count_bits(segs[i].mode, version)) = 0

\* Lines 105-132 of encode_segments and the checks of the constructor that can
\* fail, over bit counts: sel is the outcome of the version search and boost. The
\* pad loop appends 8 bits while len(bb) < capacity, so it runs
\* ceil((capacity - len) / 8) times.
FinishBitCounts(segs, sel, mask) ==
    LET version          == sel.version
        concat           == ConcatBitsFrom(segs, version, 1, 0)
        datacapacitybits == get_num_data_codewords(version, sel.ecl) * 8
        terminated       == concat + Min(4, datacapacitybits - concat)
        aligned          == terminated + ((-terminated) % 8)
        padded           == IF aligned >= datacapacitybits THEN aligned
                            ELSE aligned + 8 * ((datacapacitybits - aligned + 7) \div 8)
        numcodewords     == padded \div 8
    IN  IF ~AppendsAccepted(segs, version)
        THEN Raised("ValueError", [text |-> "Value out of range", used |-> None, cap |-> None])
        ELSE IF \/ concat # sel.datausedbits
                \/ concat > datacapacitybits
                \/ aligned % 8 # 0
                \/ ~(-1 <= mask /\ mask <= 7)
                \/ numcodewords # get_num_data_codewords(version, sel.ecl)
        THEN Raised("AssertionError", [text |-> "assert", used |-> concat, cap |-> datacapacitybits])
        ELSE sel

\* encode_segments over segment shapes: returns [status, msg, version, ecl,
\* datausedbits], status "ok" when a symbol is returned.
encode_segments_shape(segs, ecl, minversion, maxversion, mask, boostecl) ==
    IF InvalidValue(minversion, maxversion, mask)
    THEN Raised("ValueError", [text |-> "Invalid value", used |-> None, cap |-> None])
    ELSE LET found == FindVersion(segs, ecl, minversion, maxversion)
         IN  IF found.status # "ok" THEN found
             ELSE FinishBitCounts(segs,
                      [found EXCEPT !.ecl =
                          BoostEcl(ecl, found.version, found.datausedbits, boostecl)],
                      mask)

(***************************************************************************)
(* Specification SpecSelect: encode_segments on segment shapes, up to the  *)
(* choice of version and ECC level.                                        *)
(***************************************************************************)
SelVersions == {v \in MIN_VERSION..MAX_VERSION : (v - MIN_VERSION) % VersionStride = 0}

\* Shapes of segments as the QrSegment constructor accepts them: it checks only
\* numch >= 0, so a custom segment may carry one bit or eight bits per character
\* in any mode.
SelShapes ==
    {[mode |-> m, numchars |-> k * CharStep, bitlen |-> b * k * CharStep] :
        m \in Mode, k \in 0..MaxCharSteps, b \in {1, 8}}

EciShape == [mode |-> ECI, numchars |-> 0, bitlen |-> 8]

SelSegLists == {<<>>} \cup {<<s>> : s \in SelShapes} \cup {<<EciShape, s>> : s \in SelShapes}

SelArgs ==
    [segs : SelSegLists, ecl : Ecc, minversion : SelVersions, maxversion : SelVersions,
     mask : {-1}, boostecl : BOOLEAN]

NoResult == Raised("none", SegmentTooLongMsg)

InitSelect ==
    /\ pc = "call"
    /\ args \in SelArgs
    /\ res = NoResult
    /\ res2 = NoResult

\* The caller invokes encode_segments(segs, ecl, minversion, maxversion, mask, boostecl).
CallSelect ==
    /\ pc = "call"
    /\ res' = encode_segments_shape(args.segs, args.ecl, args.minversion,
                                  args.maxversion, args.mask, args.boostecl)
    /\ pc' = "done"
    /\ UNCHANGED <<args, res2>>

NextSelect == CallSelect

SpecSelect == InitSelect /\ [][NextSelect]_vars

\* Whether version v holds the segments at level ecl (the test of the search loop).
Fits(segs, v, ecl) ==
    /\ get_total_bits(segs, v) # None
    /\ get_total_bits(segs, v) <= 8 * get_num_data_codewords(v, ecl)

\* C1: a successful encode_segments returns the smallest version of
\* [minversion, maxversion] at which the segments fit at the requested level.
C1_SmallestVersion ==
    (pc = "done" /\ res.status = "ok") =>
        /\ res.version \in args.minversion..args.maxversion
        /\ Fits(args.segs, res.version, args.ecl)
        /\ \A v \in args.minversion..(res.version - 1) : ~Fits(args.segs, v, args.ecl)

\* C1 witness: a call that had to pass over versions that do not fit, one of them
\* because of a character count overflow.
C1_Witness ==
    /\ pc = "done" /\ res.status = "ok"
    /\ res.version > args.minversion + 1
    /\ res.version < args.maxversion
    /\ get_total_bits(args.segs, args.minversion) = None
    /\ get_total_bits(args.segs, res.version - 1) # None

\* C2: DataTooLongError is raised exactly when no version of the range fits; a
\* version below maxversion that does not fit never ends the search.
C2_TooLongIffNoneFits ==
    (pc = "done" /\ ~InvalidValue(args.minversion, args.maxversion, args.mask)) =>
        /\ res.status \in {"ok", "DataTooLongError"}
        /\ res.status = "DataTooLongError" <=>
               \A v \in args.minversion..args.maxversion : ~Fits(args.segs, v, args.ecl)

\* C2 witness: the range was exhausted after the search went on past earlier
\* versions, the first of them rejected for a character count overflow.
C2_Witness ==
    /\ pc = "done" /\ res.status = "DataTooLongError"
    /\ args.minversion < args.maxversion
    /\ get_total_bits(args.segs, args.minversion) = None
    /\ res.msg.text = "Data length"

\* The levels of (MEDIUM, QUARTILE, HIGH) whose capacity at version v holds used bits.
BoostCandidates(v, used) ==
    {e \in {MEDIUM, QUARTILE, HIGH} : used <= 8 * get_num_data_codewords(v, e)}

\* C3: with boostecl, the result's level is the highest of MEDIUM, QUARTILE, HIGH
\* that still holds the used bits at the chosen version (the requested level if
\* none does), and the version is the one chosen under the requested level.
C3_BoostHighestFitting ==
    (pc = "done" /\ res.status = "ok" /\ args.boostecl) =>
        LET used  == get_total_bits(args.segs, res.version)
            cands == BoostCandidates(res.version, used)
        IN  /\ cands = {} => res.ecl = args.ecl
            /\ cands # {} => /\ res.ecl \in cands
                             /\ \A e \in cands : e.ordinal <= res.ecl.ordinal
            /\ Fits(args.segs, res.version, args.ecl)
            /\ \A v \in args.minversion..(res.version - 1) : ~Fits(args.segs, v, args.ecl)

\* C3 witness: a boost from LOW that stops at QUARTILE because HIGH does not fit.
C3_Witness ==
    /\ pc = "done" /\ res.status = "ok" /\ args.boostecl
    /\ args.ecl = LOW /\ res.ecl = QUARTILE
    /\ res.version > args.minversion
    /\ ~Fits(args.segs, res.version, HIGH)

\* C4: the result's level is never below the requested one, and is the requested
\* one when boostecl is false.
C4_EclNeverLowered ==
    (pc = "done" /\ res.status = "ok") =>
        /\ res.ecl.ordinal >= args.ecl.ordinal
        /\ ~args.boostecl => res.ecl = args.ecl

\* C4 witness: a call without boosting whose data would also fit HIGH at the
\* chosen version, and whose result keeps the requested MEDIUM.
C4_Witness ==
    /\ pc = "done" /\ res.status = "ok"
    /\ ~args.boostecl /\ args.ecl = MEDIUM /\ res.ecl = MEDIUM
    /\ res.version > args.minversion
    /\ Fits(args.segs, res.version, HIGH)

(***************************************************************************)
(* Segment factories over shapes, encode_binary and encode_text.           *)
(***************************************************************************)
\* QrSegment.make_bytes(data) for len(data) = n: 8 bits are appended per byte.
make_bytes_shape(n) == [mode |-> BYTE, numchars |-> n, bitlen |-> 8 * n]

\* QrSegment.make_numeric(digits) for len(digits) = n: the loop consumes 3 digits
\* per iteration into 10 bits, and a last group of 1 or 2 digits into 4 or 7.
make_numeric_shape(n) ==
    [mode |-> NUMERIC, numchars |-> n,
     bitlen |-> (n \div 3) * (3 * 3 + 1) + (IF n % 3 > 0 THEN (n % 3) * 3 + 1 ELSE 0)]

\* QrSegment.make_alphanumeric(text) for len(text) = n: range(0, n - 1, 2) has
\* n \div 2 elements, 11 bits each, and a remaining character takes 6 bits.
make_alphanumeric_shape(n) ==
    [mode |-> ALPHANUMERIC, numchars |-> n,
     bitlen |-> (n \div 2) * 11 + (IF n % 2 > 0 THEN 6 ELSE 0)]

\* QrCode.encode_binary(data, ecl) for len(data) = n.
encode_binary(n, ecl) ==
    encode_segments_shape(<<make_bytes_shape(n)>>, ecl, MIN_VERSION, MAX_VERSION, -1, TRUE)

\* A text is a sequence of runs [cp, n]: n >= 1 copies of the code point cp.
RECURSIVE TextLenFrom(_, _)
TextLenFrom(text, i) == IF i > Len(text) THEN 0 ELSE text[i].n + TextLenFrom(text, i + 1)
TextLen(text) == TextLenFrom(text, 1)

\* The number of bytes of one code point in text.encode("UTF-8").
Utf8Len(cp) == IF cp < 128 THEN 1 ELSE IF cp < 2048 THEN 2 ELSE IF cp < 65536 THEN 3 ELSE 4

RECURSIVE Utf8BytesFrom(_, _)
Utf8BytesFrom(text, i) ==
    IF i > Len(text) THEN 0 ELSE text[i].n * Utf8Len(text[i].cp) + Utf8BytesFrom(text, i + 1)
\* len(text.encode("UTF-8"))
Utf8Bytes(text) == Utf8BytesFrom(text, 1)

\* The characters of _NUMERIC_REGEX and _ALPHANUMERIC_REGEX, as code points:
\* 0-9; A-Z 0-9 space $ % * + . / : -
NumericCodePoints == 48..57
AlphanumericCodePoints == (65..90) \cup (48..57) \cup {32, 36, 37, 42, 43, 46, 47, 58, 45}

\* QrSegment.is_numeric, QrSegment.is_alphanumeric (a full match of the regex)
is_numeric(text) == \A i \in 1..Len(text) : text[i].cp \in NumericCodePoints
is_alphanumeric(text) == \A i \in 1..Len(text) : text[i].cp \in AlphanumericCodePoints

\* A plausible slip: the byte segment is sized by characters, not encoded bytes.
make_segments_shape_CharCount(text) ==
    IF text = <<>> THEN <<>>
    ELSE IF is_numeric(text) THEN <<make_numeric_shape(TextLen(text))>>
    ELSE IF is_alphanumeric(text) THEN <<make_alphanumeric_shape(TextLen(text))>>
    ELSE <<make_bytes_shape(TextLen(text))>>

\* QrSegment.make_segments(text), as shapes.
make_segments_shape(text) ==
    IF text = <<>> THEN <<>>
    ELSE IF is_numeric(text) THEN <<make_numeric_shape(TextLen(text))>>
    ELSE IF is_alphanumeric(text) THEN <<make_alphanumeric_shape(TextLen(text))>>
    ELSE <<make_bytes_shape(Utf8Bytes(text))>>

\* QrCode.encode_text(text, ecl)
encode_text(text, ecl) ==
    encode_segments_shape(make_segments_shape(text), ecl, MIN_VERSION, MAX_VERSION, -1, TRUE)

(***************************************************************************)
(* Specification SpecBinary: encode_binary on byte strings of every length *)
(* up to MaxBinaryLen (the outcome does not depend on the byte values).    *)
(***************************************************************************)
InitBinary ==
    /\ pc = "call"
    /\ args \in [len : 0..MaxBinaryLen, ecl : Ecc]
    /\ res = NoResult
    /\ res2 = NoResult

CallBinary ==
    /\ pc = "call"
    /\ res' = encode_binary(args.len, args.ecl)
    /\ pc' = "done"
    /\ UNCHANGED <<args, res2>>

NextBinary == CallBinary

SpecBinary == InitBinary /\ [][NextBinary]_vars

\* The documented maximum number of bytes of encode_binary at LOW.
MaxBytesLow == 2953

\* C8: encode_binary at LOW succeeds for up to 2953 bytes and raises
\* DataTooLongError for 2954 bytes.
C8_BinaryLimitLow ==
    (pc = "done" /\ args.ecl = LOW) =>
        /\ args.len <= MaxBytesLow => res.status = "ok"
        /\ args.len = MaxBytesLow + 1 => res.status = "DataTooLongError"

\* C8 witness: the longest accepted input, which takes version 40 at LOW.
C8_Witness ==
    /\ pc = "done" /\ args.ecl = LOW /\ args.len = MaxBytesLow
    /\ res.status = "ok" /\ res.version = MAX_VERSION /\ res.ecl = LOW

(***************************************************************************)
(* Specification SpecText: encode_text on texts of one or two runs.        *)
(***************************************************************************)
\* '7', 'K', 'k', e-acute (2 bytes), euro sign (3 bytes)
TextCodePoints == {55, 75, 107, 233, 8364}

\* What a text may start with, before its run: nothing, '7' or 'k'
TextHeads == {<<>>, <<55>>, <<107>>}

\* The text made of the characters of head and then n copies of the code point cp.
TextOf(head, cp, n) ==
    [i \in 1..Len(head) |-> [cp |-> head[i], n |-> 1]]
        \o (IF n > 0 THEN <<[cp |-> cp, n |-> n]>> ELSE <<>>)

InitText ==
    /\ pc = "call"
    /\ \E head \in TextHeads, cp \in TextCodePoints, n \in 0..MaxTextLen, ecl \in Ecc :
            args = [text |-> TextOf(head, cp, n), ecl |-> ecl]
    /\ res = NoResult
    /\ res2 = NoResult

CallText ==
    /\ pc = "call"
    /\ res' = encode_text(args.text, args.ecl)
    /\ pc' = "done"
    /\ UNCHANGED <<args, res2>>

NextText == CallText

SpecText == InitText /\ [][NextText]_vars

\* The largest number of bytes a byte-mode segment can carry at version 40.
ByteCapacity40(ecl) ==
    (8 * get_num_data_codewords(MAX_VERSION, ecl) - 4 - num_char_count_bits(BYTE, MAX_VERSION)) \div 8

\* C9 as stated: every text whose UTF-8 byte count exceeds the version 40
\* capacity at ecl fails with DataTooLongError, all-digit and all-alphanumeric
\* texts included.
C9_Original ==
    (pc = "done" /\ Utf8Bytes(args.text) > ByteCapacity40(args.ecl)) =>
        res.status = "DataTooLongError"

\* C9 amended: a text that is neither all-digit nor all-alphanumeric (and is
\* therefore encoded in byte mode) fails with DataTooLongError whenever its UTF-8
\* byte count exceeds the version 40 byte capacity at ecl, and only then.
C9_ByteModeTextTooLong ==
    (pc = "done" /\ ~is_numeric(args.text) /\ ~is_alphanumeric(args.text)) =>
        /\ res.status \in {"ok", "DataTooLongError"}
        /\ res.status = "DataTooLongError" <=>
               Utf8Bytes(args.text) > ByteCapacity40(args.ecl)

\* C9 witness: a byte-mode text with fewer characters than the capacity but more
\* UTF-8 bytes, which is rejected.
C9_Witness ==
    /\ pc = "done" /\ args.ecl = LOW
    /\ ~is_alphanumeric(args.text)
    /\ TextLen(args.text) <= ByteCapacity40(LOW)
    /\ Utf8Bytes(args.text) > ByteCapacity40(LOW)
    /\ res.status = "DataTooLongError"

(***************************************************************************)
(* Bit-exact model: integers as bit strings, _BitBuffer, segment           *)
(* factories.  A bit-exact segment is [mode, numchars, bitdata] with       *)
(* bitdata a sequence of 0s and 1s; texts are sequences of code points and *)
(* byte strings sequences of integers.                                     *)
(***************************************************************************)
\* a ^ b on non-negative integers (Python's bitwise exclusive or)
RECURSIVE Xor(_, _)
Xor(a, b) ==
    IF a = 0 THEN b
    ELSE IF b = 0 THEN a
    ELSE ((a + b) % 2) + 2 * Xor(a \div 2, b \div 2)

\* _get_bit(x, i)
get_bit(x, i) == (x \div (2 ^ i)) % 2 # 0

\* A function with domain 1..n as an explicit sequence (a Python list): the value
\* is built once, of its elements, rather than re-evaluated at each access.
AsList(f) == f \o <<>>

\* Python's val >> i for i >= 0 and val of up to 31 bits and a sign: a shift by
\* 31 places or more leaves 0, or -1 of a negative value.
ShiftRight(val, i) ==
    IF i >= 31 THEN (IF val < 0 THEN -1 ELSE 0) ELSE val \div (2 ^ i)

\* A plausible slip: the bits are appended least significant first.
BitsOf_LsbFirst(val, n) == AsList([k \in 1..n |-> ShiftRight(val, k - 1) % 2])

\* The bits that _BitBuffer.append_bits(val, n) appends: the n low-order bits of
\* val, most significant first.
BitsOf(val, n) == AsList([k \in 1..n |-> ShiftRight(val, n - k) % 2])

\* Whether _BitBuffer.append_bits(val, n) raises ValueError.
append_bits_raises(val, n) == n < 0 \/ ShiftRight(val, n) # 0

\* The buffer after _BitBuffer.append_bits(val, n), when it does not raise.
append_bits(bb, val, n) == bb \o BitsOf(val, n)

\* The loop "for b in data" of QrSegment.make_bytes from index i: 8 bits per byte.
BytesToBits[data \in Seq(Nat), i \in Nat, bb \in Seq(Nat)] ==
    IF i > Len(data) THEN bb ELSE BytesToBits[data, i + 1, append_bits(bb, data[i], 8)]

\* QrSegment.make_bytes(data)
make_bytes(data) ==
    [mode |-> BYTE, numchars |-> Len(data), bitdata |-> BytesToBits[data, 1, <<>>]]

\* int(digits[i : i + n]) for a sequence of digit code points
RECURSIVE DigitsValue(_, _, _)
DigitsValue(digits, i, n) ==
    IF n = 0 THEN 0
    ELSE DigitsValue(digits, i, n - 1) * 10 + (digits[i + n - 1] - 48)

\* The while loop of QrSegment.make_numeric, from index i (0-based).
NumericBits[digits \in Seq(Nat), i \in Nat, bb \in Seq(Nat)] ==
    IF i < Len(digits)
    THEN LET n == Min(Len(digits) - i, 3)
         IN  NumericBits[digits, i + n,
                 append_bits(bb, DigitsValue(digits, i + 1, n), n * 3 + 1)]
    ELSE bb

\* A plausible slip: the character count is the number of groups, not of digits.
make_numeric_GroupCount(digits) ==
    [mode |-> NUMERIC, numchars |-> (Len(digits) + 2) \div 3,
     bitdata |-> NumericBits[digits, 0, <<>>]]

\* QrSegment.make_numeric(digits), for digits that pass is_numeric.
make_numeric(digits) ==
    [mode |-> NUMERIC, numchars |-> Len(digits), bitdata |-> NumericBits[digits, 0, <<>>]]

\* QrSegment._ALPHANUMERIC_ENCODING_TABLE, on code points: the index of the
\* character in "0123456789ABCDEFGHIJKLMNOPQRSTUVWXYZ $%*+-./:".
ALPHANUMERIC_CHARSET ==
    <<48, 49, 50, 51, 52, 53, 54, 55, 56, 57,
      65, 66, 67, 68, 69, 70, 71, 72, 73, 74, 75, 76, 77, 78, 79, 80, 81, 82, 83,
      84, 85, 86, 87, 88, 89, 90, 32, 36, 37, 42, 43, 45, 46, 47, 58>>
ALPHANUMERIC_ENCODING_TABLE(cp) ==
    (CHOOSE k \in 1..Len(ALPHANUMERIC_CHARSET) : ALPHANUMERIC_CHARSET[k] = cp) - 1

\* The for loop of QrSegment.make_alphanumeric (groups of 2), from index i (0-based).
AlphanumericPairBits[text \in Seq(Nat), i \in Nat, bb \in Seq(Nat)] ==
    IF i < Len(text) - 1
    THEN AlphanumericPairBits[text, i + 2,
             append_bits(bb, ALPHANUMERIC_ENCODING_TABLE(text[i + 1]) * 45
                                 + ALPHANUMERIC_ENCODING_TABLE(text[i + 2]), 11)]
    ELSE bb

\* A plausible slip: the remaining character is written in 11 bits, like a pair.
make_alphanumeric_WideTail(text) ==
    [mode |-> ALPHANUMERIC, numchars |-> Len(text),
     bitdata |-> LET bb == AlphanumericPairBits[text, 0, <<>>]
                 IN  IF Len(text) % 2 > 0
                     THEN append_bits(bb, ALPHANUMERIC_ENCODING_TABLE(text[Len(text)]), 11)
                     ELSE bb]

\* QrSegment.make_alphanumeric(text), for text that passes is_alphanumeric.
make_alphanumeric(text) ==
    [mode |-> ALPHANUMERIC, numchars |-> Len(text),
     bitdata |-> LET bb == AlphanumericPairBits[text, 0, <<>>]
                 IN  IF Len(text) % 2 > 0
                     THEN append_bits(bb, ALPHANUMERIC_ENCODING_TABLE(text[Len(text)]), 6)
                     ELSE bb]

\* The bytes of one code point in UTF-8 (1 to 4 bytes; surrogates, which
\* encode() rejects, are not among the texts).
Utf8Of(cp) ==
    IF cp < 128 THEN <<cp>>
    ELSE IF cp < 2048 THEN <<192 + (cp \div 64), 128 + (cp % 64)>>
    ELSE IF cp < 65536
    THEN <<224 + (cp \div 4096), 128 + ((cp \div 64) % 64), 128 + (cp % 64)>>
    ELSE <<240 + (cp \div 262144), 128 + ((cp \div 4096) % 64),
           128 + ((cp \div 64) % 64), 128 + (cp % 64)>>

Utf8Loop[text \in Seq(Nat), i \in Nat, out \in Seq(Nat)] ==
    IF i > Len(text) THEN out ELSE Utf8Loop[text, i + 1, out \o Utf8Of(text[i])]

\* A plausible slip: each character becomes one byte, its code point cut to 8
\* bits (an encoding like Latin-1 in place of UTF-8).
EncodeUtf8_OneByte(text) == AsList([i \in 1..Len(text) |-> text[i] % 256])

\* text.encode("UTF-8") for a text given as a sequence of code points.
EncodeUtf8(text) == Utf8Loop[text, 1, <<>>]

\* QrSegment.make_segments(text) for a text given as a sequence of code points.
make_segments(text) ==
    IF text = <<>> THEN <<>>
    ELSE IF \A i \in 1..Len(text) : text[i] \in NumericCodePoints
    THEN <<make_numeric(text)>>
    ELSE IF \A i \in 1..Len(text) : text[i] \in AlphanumericCodePoints
    THEN <<make_alphanumeric(text)>>
    ELSE <<make_bytes(EncodeUtf8(text))>>

\* The shape of a bit-exact segment: len(seg._bitdata) for its bit data.
ShapeOf(seg) == [mode |-> seg.mode, numchars |-> seg.numchars, bitlen |-> Len(seg.bitdata)]
ShapesOf(segs) == AsList([i \in 1..Len(segs) |-> ShapeOf(segs[i])])

\* Lines 106-110 of encode_segments: mode, count and data of each segment.
RECURSIVE ConcatSegments(_, _, _)
ConcatSegments(segs, version, i) ==
    IF i > Len(segs) THEN <<>>
    ELSE append_bits(append_bits(<<>>, segs[i].mode.modebits, 4), segs[i].numchars,
                     num_char_count_bits(segs[i].mode, version))
             \o segs[i].bitdata
             \o ConcatSegments(segs, version, i + 1)

\* A plausible slip: the two pad bytes in the other order.
PadByte_Swapped(k) == IF k % 2 = 0 THEN 17 ELSE 236

\* The k-th (0-based) value of itertools.cycle((0xEC, 0x11)).
PadByte(k) == IF k % 2 = 0 THEN 236 ELSE 17

\* Lines 121-124: pad bytes until the capacity is reached; k counts the bytes added.
PadToCapacity[bb \in Seq(Nat), datacapacitybits \in Nat, k \in Nat] ==
    IF Len(bb) >= datacapacitybits THEN bb
    ELSE PadToCapacity[append_bits(bb, PadByte(k), 8), datacapacitybits, k + 1]

\* Lines 127-129: pack the bits into bytes, big endian.
PackBytes(bb) ==
    AsList([i \in 1..(Len(bb) \div 8) |->
        bb[8 * i - 7] * 128 + bb[8 * i - 6] * 64 + bb[8 * i - 5] * 32 + bb[8 * i - 4] * 16
        + bb[8 * i - 3] * 8 + bb[8 * i - 2] * 4 + bb[8 * i - 1] * 2 + bb[8 * i]])

\* A plausible slip: the zero bits up to the byte boundary (line 118) are left
\* out.
DataBits_NoAlign(segs, version, ecl) ==
    LET bb0              == ConcatSegments(segs, version, 1)
        datacapacitybits == get_num_data_codewords(version, ecl) * 8
        bb1              == append_bits(bb0, 0, Min(4, datacapacitybits - Len(bb0)))
    IN  PadToCapacity[bb1, datacapacitybits, 0]

\* Lines 105-124 of encode_segments: the bit buffer bb for the chosen version
\* and (boosted) level, after the terminator, the alignment and the pad bytes.
DataBits(segs, version, ecl) ==
    LET bb0              == ConcatSegments(segs, version, 1)
        datacapacitybits == get_num_data_codewords(version, ecl) * 8
        bb1              == append_bits(bb0, 0, Min(4, datacapacitybits - Len(bb0)))
        bb2              == append_bits(bb1, 0, (-Len(bb1)) % 8)
    IN  PadToCapacity[bb2, datacapacitybits, 0]

\* Lines 105-129 of encode_segments: the data codewords for the chosen version
\* and (boosted) level.
DataCodewords(segs, version, ecl) == PackBytes(DataBits(segs, version, ecl))

(***************************************************************************)
(* Reed-Solomon error correction over GF(2^8 / 0x11D) and interleaving.    *)
(***************************************************************************)
\* The loop "for i in reversed(range(8))" of _reed_solomon_multiply at iteration
\* i, z being the running product.
MultiplyLoop[x \in Nat, y \in Nat, i \in Int, z \in Nat] ==
    IF i < 0 THEN z
    ELSE MultiplyLoop[x, y, i - 1,
             Xor(Xor(z * 2, (z \div 128) * 285), ((y \div (2 ^ i)) % 2) * x)]

\* A plausible slip: the range test lets 256 through.
reed_solomon_multiply_OffByOne(x, y) ==
    IF x < 0 \/ x > 256 \/ y < 0 \/ y > 256 THEN None ELSE MultiplyLoop[x, y, 7, 0]

\* QrCode._reed_solomon_multiply(x, y): the product of two field elements; an
\* argument outside 0..255 raises ValueError, rendered as None.
reed_solomon_multiply(x, y) ==
    IF x \div 256 # 0 \/ y \div 256 # 0 THEN None ELSE MultiplyLoop[x, y, 7, 0]

\* One pass "for j in range(degree)" of _reed_solomon_compute_divisor: result[j]
\* is multiplied by root and then result[j + 1], not yet updated, is added.
DivisorPass(result, root, degree) ==
    AsList([j \in 1..degree |->
        Xor(reed_solomon_multiply(result[j], root),
            IF j < degree THEN result[j + 1] ELSE 0)])

\* The outer loop "for _ in range(degree)" of _reed_solomon_compute_divisor with
\* n passes left.
DivisorLoop[result \in Seq(Nat), root \in Nat, degree \in Nat, n \in Nat] ==
    IF n = 0 THEN result
    ELSE DivisorLoop[DivisorPass(result, root, degree), reed_solomon_multiply(root, 2),
                     degree, n - 1]

\* A plausible slip: the first root is r^1, not r^0.
reed_solomon_compute_divisor_FromR1(degree) ==
    DivisorLoop[AsList([j \in 1..degree |-> IF j = degree THEN 1 ELSE 0]), 2, degree, degree]

\* QrCode._reed_solomon_compute_divisor(degree), for 1 <= degree <= 255: the
\* loop starts from the monomial x^0 and root = 1.
reed_solomon_compute_divisor(degree) ==
    DivisorLoop[AsList([j \in 1..degree |-> IF j = degree THEN 1 ELSE 0]), 1, degree, degree]

\* The body of the loop "for b in data" of _reed_solomon_compute_remainder
RemainderStep(result, b, divisor) ==
    LET factor  == Xor(b, result[1])
        shifted == Tail(result) \o <<0>>
    IN  AsList([k \in 1..Len(divisor) |->
            Xor(shifted[k], reed_solomon_multiply(divisor[k], factor))])

\* The loop "for b in data" of _reed_solomon_compute_remainder from index i
RemainderLoop[data \in Seq(Nat), divisor \in Seq(Nat), i \in Nat, result \in Seq(Nat)] ==
    IF i > Len(data) THEN result
    ELSE RemainderLoop[data, divisor, i + 1, RemainderStep(result, data[i], divisor)]

\* QrCode._reed_solomon_compute_remainder(data, divisor)
reed_solomon_compute_remainder(data, divisor) ==
    RemainderLoop[data, divisor, 1, AsList([k \in 1..Len(divisor) |-> 0])]

\* data[a : b] of Python, for 0 <= a
Slice(data, a, b) == SubSeq(data, a + 1, Min(b, Len(data)))

\* The loop "for i in range(numblocks)" of _add_ecc_and_interleave from block i,
\* with k data bytes consumed: each block is its data, a padding byte in a short
\* block, and its ECC.
RECURSIVE EccBlocks(_, _, _, _, _, _, _, _)
EccBlocks(data, rsdiv, numblocks, numshortblocks, shortblocklen, blockecclen, i, k) ==
    IF i >= numblocks THEN <<>>
    ELSE LET dat == Slice(data, k, k + shortblocklen - blockecclen
                                     + (IF i < numshortblocks THEN 0 ELSE 1))
             ecc == reed_solomon_compute_remainder(dat, rsdiv)
         IN  <<(IF i < numshortblocks THEN dat \o <<0>> ELSE dat) \o ecc>>
                 \o EccBlocks(data, rsdiv, numblocks, numshortblocks, shortblocklen,
                              blockecclen, i + 1, k + Len(dat))

\* The interleaving loops of _add_ecc_and_interleave from row i (0-based): byte i
\* of every block, the padding byte of the short blocks left out.
Interleave[blocks \in Seq(Seq(Nat)), numshortblocks \in Nat, padrow \in Int, i \in Nat, result \in Seq(Nat)] ==
    IF i >= Len(blocks[1]) THEN result
    ELSE LET kept == SelectSeq(AsList([j \in 1..Len(blocks) |-> j]),
                         LAMBDA j : i # padrow \/ j - 1 >= numshortblocks)
         IN  Interleave[blocks, numshortblocks, padrow, i + 1,
                 result \o AsList([n \in 1..Len(kept) |-> blocks[kept[n]][i + 1]])]

\* A plausible slip: the blocks are concatenated, not interleaved.
RECURSIVE ConcatBlocks(_, _)
ConcatBlocks(blocks, j) ==
    IF j > Len(blocks) THEN <<>> ELSE blocks[j] \o ConcatBlocks(blocks, j + 1)
add_ecc_and_interleave_Concatenate(version, errcorlvl, data) ==
    LET numblocks      == NUM_ERROR_CORRECTION_BLOCKS[errcorlvl.ordinal + 1][version + 1]
        blockecclen    == ECC_CODEWORDS_PER_BLOCK[errcorlvl.ordinal + 1][version + 1]
        rawcodewords   == get_num_raw_data_modules(version) \div 8
        numshortblocks == numblocks - (rawcodewords % numblocks)
        shortblocklen  == rawcodewords \div numblocks
        rsdiv          == reed_solomon_compute_divisor(blockecclen)
        blocks         == EccBlocks(data, rsdiv, numblocks, numshortblocks, shortblocklen,
                                    blockecclen, 0, 0)
        datalen        == shortblocklen - blockecclen
    IN  ConcatBlocks(AsList([j \in 1..numblocks |->
                         IF j <= numshortblocks
                         THEN SubSeq(blocks[j], 1, datalen)
                                  \o SubSeq(blocks[j], datalen + 2, Len(blocks[j]))
                         ELSE blocks[j]]),
                     1)

\* QrCode._add_ecc_and_interleave(data), for len(data) =
\* _get_num_data_codewords(version, errcorlvl)
add_ecc_and_interleave(version, errcorlvl, data) ==
    LET numblocks      == NUM_ERROR_CORRECTION_BLOCKS[errcorlvl.ordinal + 1][version + 1]
        blockecclen    == ECC_CODEWORDS_PER_BLOCK[errcorlvl.ordinal + 1][version + 1]
        rawcodewords   == get_num_raw_data_modules(version) \div 8
        numshortblocks == numblocks - (rawcodewords % numblocks)
        shortblocklen  == rawcodewords \div numblocks
        rsdiv          == reed_solomon_compute_divisor(blockecclen)
        blocks         == EccBlocks(data, rsdiv, numblocks, numshortblocks, shortblocklen,
                                    blockecclen, 0, 0)
    IN  Interleave[blocks, numshortblocks, shortblocklen - blockecclen, 0, <<>>]

(***************************************************************************)
(* The module grid.  A grid is a sequence of rows, each a sequence of      *)
(* Booleans: the code's modules[y][x] is modules[y + 1][x + 1] here.       *)
(***************************************************************************)
PENALTY_N1 == 3
PENALTY_N2 == 3
PENALTY_N3 == 40
PENALTY_N4 == 10
\* The upper bound asserted on a penalty score
MAX_PENALTY == 2568888

Abs(a) == IF a < 0 THEN -a ELSE a
Max(a, b) == IF a > b THEN a ELSE b

\* Python's a | b on non-negative integers
RECURSIVE BitOr(_, _)
BitOr(a, b) ==
    IF a = 0 THEN b
    ELSE IF b = 0 THEN a
    ELSE (IF a % 2 = 1 \/ b % 2 = 1 THEN 1 ELSE 0) + 2 * BitOr(a \div 2, b \div 2)

\* QrCode._get_alignment_pattern_positions(), ascending
get_alignment_pattern_positions(ver) ==
    IF ver = 1 THEN <<>>
    ELSE LET size     == ver * 4 + 17
             numalign == ver \div 7 + 2
             step     == IF ver = 32 THEN 26
                         ELSE ((ver * 4 + numalign * 2 + 1) \div (numalign * 2 - 2)) * 2
         IN  AsList([k \in 1..numalign |->
                 IF k = 1 THEN 6 ELSE size - 7 - (numalign - k) * step])

\* What the drawing of function patterns does for one module: NotSet if
\* _set_function_module is not called for it, SetTo(isdark) otherwise.
NotSet == [set |-> FALSE, isdark |-> FALSE]
SetTo(isdark) == [set |-> TRUE, isdark |-> isdark]

\* The timing patterns (lines 237-239) at module (x, y)
TimingModule(x, y) ==
    IF y = 6 THEN SetTo(x % 2 = 0)
    ELSE IF x = 6 THEN SetTo(y % 2 = 0)
    ELSE NotSet

\* The three calls of _draw_finder_pattern (lines 242-244) at module (x, y); the
\* patterns, separators included, do not overlap.
FinderModule(size, x, y) ==
    LET centres == {<<3, 3>>, <<size - 4, 3>>, <<3, size - 4>>}
        hits    == {c \in centres : Abs(x - c[1]) <= 4 /\ Abs(y - c[2]) <= 4}
    IN  IF hits = {} THEN NotSet
        ELSE LET c == CHOOSE h \in hits : TRUE
             IN  SetTo(Max(Abs(x - c[1]), Abs(y - c[2])) \notin {2, 4})

\* The calls of _draw_alignment_pattern (lines 247-253) at module (x, y); the
\* patterns do not overlap.
AlignmentModule(alignpatpos, x, y) ==
    LET numalign == Len(alignpatpos)
        hits     == {c \in (1..numalign) \X (1..numalign) :
                        /\ ~(c[1] = 1 /\ c[2] = 1)
                        /\ ~(c[1] = 1 /\ c[2] = numalign)
                        /\ ~(c[1] = numalign /\ c[2] = 1)
                        /\ Abs(x - alignpatpos[c[1]]) <= 2
                        /\ Abs(y - alignpatpos[c[2]]) <= 2}
    IN  IF hits = {} THEN NotSet
        ELSE LET c == CHOOSE h \in hits : TRUE
             IN  SetTo(Max(Abs(x - alignpatpos[c[1]]), Abs(y - alignpatpos[c[2]])) # 1)

\* The loop "for _ in range(10)" of _draw_format_bits with n iterations left
FormatRemainder[rem \in Nat, n \in Nat] ==
    IF n = 0 THEN rem
    ELSE FormatRemainder[Xor(rem * 2, (rem \div 512) * 1335), n - 1]

\* The 15 format bits of _draw_format_bits(mask) (lines 264-268)
FormatBits(errcorlvl, mask) ==
    LET data == BitOr(errcorlvl.formatbits * 8, mask)
    IN  Xor(BitOr(data * 1024, FormatRemainder[data, 10]), 21522)

\* A plausible slip: the second copy runs the other way along row 8.
FormatModule_SecondCopyReversed(bits, size, x, y) ==
    IF x = 8 /\ 0 <= y /\ y <= 5 THEN SetTo(get_bit(bits, y))
    ELSE IF x = 8 /\ y = 7 THEN SetTo(get_bit(bits, 6))
    ELSE IF x = 8 /\ y = 8 THEN SetTo(get_bit(bits, 7))
    ELSE IF x = 7 /\ y = 8 THEN SetTo(get_bit(bits, 8))
    ELSE IF y = 8 /\ 0 <= x /\ x <= 5 THEN SetTo(get_bit(bits, 14 - x))
    ELSE IF y = 8 /\ size - 8 <= x /\ x <= size - 1 THEN SetTo(get_bit(bits, x - (size - 8)))
    ELSE IF x = 8 /\ size - 7 <= y /\ y <= size - 1 THEN SetTo(get_bit(bits, y - size + 15))
    ELSE IF x = 8 /\ y = size - 8 THEN SetTo(TRUE)
    ELSE NotSet

\* The two copies of the format bits (lines 272-285) at module (x, y)
FormatModule(bits, size, x, y) ==
    IF x = 8 /\ 0 <= y /\ y <= 5 THEN SetTo(get_bit(bits, y))
    ELSE IF x = 8 /\ y = 7 THEN SetTo(get_bit(bits, 6))
    ELSE IF x = 8 /\ y = 8 THEN SetTo(get_bit(bits, 7))
    ELSE IF x = 7 /\ y = 8 THEN SetTo(get_bit(bits, 8))
    ELSE IF y = 8 /\ 0 <= x /\ x <= 5 THEN SetTo(get_bit(bits, 14 - x))
    ELSE IF y = 8 /\ size - 8 <= x /\ x <= size - 1 THEN SetTo(get_bit(bits, size - 1 - x))
    ELSE IF x = 8 /\ size - 7 <= y /\ y <= size - 1 THEN SetTo(get_bit(bits, y - size + 15))
    ELSE IF x = 8 /\ y = size - 8 THEN SetTo(TRUE)
    ELSE NotSet

\* The loop "for _ in range(12)" of _draw_version with n iterations left
VersionRemainder[rem \in Nat, n \in Nat] ==
    IF n = 0 THEN rem
    ELSE VersionRemainder[Xor(rem * 2, (rem \div 2048) * 7973), n - 1]

\* The 18 version bits of _draw_version (lines 295-298)
VersionBits(version) == BitOr(version * 4096, VersionRemainder[version, 12])

\* The two copies of the version bits (lines 291-307) at module (x, y): bit i is
\* drawn at (a, b) and (b, a) for a = size - 11 + i % 3 and b = i // 3.
VersionModule(version, size, x, y) ==
    IF version < 7 THEN NotSet
    ELSE IF size - 11 <= x /\ x <= size - 9 /\ 0 <= y /\ y <= 5
    THEN SetTo(get_bit(VersionBits(version), y * 3 + (x - (size - 11))))
    ELSE IF size - 11 <= y /\ y <= size - 9 /\ 0 <= x /\ x <= 5
    THEN SetTo(get_bit(VersionBits(version), x * 3 + (y - (size - 11))))
    ELSE NotSet

\* The last call of _set_function_module that _draw_function_patterns makes for
\* module (x, y): the version bits are drawn last, before them the format bits of
\* the dummy mask 0, the alignment patterns, the finder patterns and the timing
\* patterns.
FunctionModule(version, errcorlvl, alignpatpos, x, y) ==
    LET size == version * 4 + 17
        ver  == VersionModule(version, size, x, y)
        fmt  == FormatModule(FormatBits(errcorlvl, 0), size, x, y)
        aln  == AlignmentModule(alignpatpos, x, y)
        fnd  == FinderModule(size, x, y)
    IN  IF ver.set THEN ver
        ELSE IF fmt.set THEN fmt
        ELSE IF aln.set THEN aln
        ELSE IF fnd.set THEN fnd
        ELSE TimingModule(x, y)

\* QrCode._draw_function_patterns() on the all-light grids of the constructor:
\* the grids modules and isfunction that it leaves.
draw_function_patterns(version, errcorlvl) ==
    LET size        == version * 4 + 17
        alignpatpos == get_alignment_pattern_positions(version)
        cells       == AsList([y \in 1..size |-> AsList([x \in 1..size |->
                           FunctionModule(version, errcorlvl, alignpatpos, x - 1, y - 1)])])
    IN  [modules    |-> AsList([y \in 1..size |-> AsList([x \in 1..size |-> cells[y][x].isdark])]),
         isfunction |-> AsList([y \in 1..size |-> AsList([x \in 1..size |-> cells[y][x].set])])]

\* A plausible slip: the format bits are always those of the dummy mask.
draw_format_bits_Placeholder(modules, size, errcorlvl, mask) ==
    AsList([y \in 1..size |-> AsList([x \in 1..size |->
        IF FormatModule(FormatBits(errcorlvl, 0), size, x - 1, y - 1).set
        THEN FormatModule(FormatBits(errcorlvl, 0), size, x - 1, y - 1).isdark
        ELSE modules[y][x]])])

\* QrCode._draw_format_bits(mask) on a grid
draw_format_bits(modules, size, errcorlvl, mask) ==
    LET bits == FormatBits(errcorlvl, mask)
    IN  AsList([y \in 1..size |-> AsList([x \in 1..size |->
            LET fmt == FormatModule(bits, size, x - 1, y - 1)
            IN  IF fmt.set THEN fmt.isdark ELSE modules[y][x]])])

\* The types of a grid and of the variables that _draw_codewords carries
Grid == Seq(Seq(BOOLEAN))
DrawState == [modules : Grid, i : Nat]

\* A plausible slip: the scan does not skip the function modules.
DrawCodewordModule_OverFunction(st, data, isfunction, x, y) ==
    IF st.i < Len(data) * 8
    THEN [modules |-> [st.modules EXCEPT ![y + 1][x + 1] =
                          get_bit(data[st.i \div 8 + 1], 7 - (st.i % 8))],
          i       |-> st.i + 1]
    ELSE st

\* The body of the innermost loop of _draw_codewords (lines 391-393) for module
\* (x, y); st is [modules, i], i the bit index into the data.
DrawCodewordModule(st, data, isfunction, x, y) ==
    IF ~isfunction[y + 1][x + 1] /\ st.i < Len(data) * 8
    THEN [modules |-> [st.modules EXCEPT ![y + 1][x + 1] =
                          get_bit(data[st.i \div 8 + 1], 7 - (st.i % 8))],
          i       |-> st.i + 1]
    ELSE st

\* The loop "for vert in range(size)" of _draw_codewords, from vert, for the
\* column pair whose right column is right. (right + 1) & 2 == 0 is
\* ((right + 1) // 2) % 2 == 0.
DrawColumnPair[st \in DrawState, data \in Seq(Nat), isfunction \in Grid, size \in Nat, right \in Nat, vert \in Nat] ==
    IF vert >= size THEN st
    ELSE LET upward == ((right + 1) \div 2) % 2 = 0
             y      == IF upward THEN size - 1 - vert ELSE vert
         IN  DrawColumnPair[
                 DrawCodewordModule(DrawCodewordModule(st, data, isfunction, right, y),
                                    data, isfunction, right - 1, y),
                 data, isfunction, size, right, vert + 1]

\* The loop "for right in range(size - 1, 0, -2)" of _draw_codewords, from right0.
DrawColumnPairs[st \in DrawState, data \in Seq(Nat), isfunction \in Grid, size \in Nat, right0 \in Int] ==
    IF right0 <= 0 THEN st
    ELSE LET right == IF right0 <= 6 THEN right0 - 1 ELSE right0
         IN  DrawColumnPairs[DrawColumnPair[st, data, isfunction, size, right, 0],
                             data, isfunction, size, right0 - 2]

\* The grids after the zigzag scan ended in st, and whether the two
\* assertions of _draw_codewords hold (lines 379 and 396).
DrawnGrid(st, isfunction, version, data) ==
    [modules    |-> st.modules,
     isfunction |-> isfunction,
     asserted   |-> /\ Len(data) = get_num_raw_data_modules(version) \div 8
                    /\ st.i = Len(data) * 8]

\* QrCode._draw_codewords(data) on the grids fp that _draw_function_patterns
\* left: the modules after the zigzag scan, the function modules as they were.
draw_codewords(fp, version, data) ==
    DrawnGrid(DrawColumnPairs[[modules |-> fp.modules, i |-> 0], data, fp.isfunction,
                              version * 4 + 17, version * 4 + 16],
              fp.isfunction, version, data)

\* QrCode._MASK_PATTERNS[mask](x, y)
MASK_PATTERNS(mask, x, y) ==
    CASE mask = 0 -> (x + y) % 2
      [] mask = 1 -> y % 2
      [] mask = 2 -> x % 3
      [] mask = 3 -> (x + y) % 3
      [] mask = 4 -> ((x \div 3) + (y \div 2)) % 2
      [] mask = 5 -> ((x * y) % 2) + ((x * y) % 3)
      [] mask = 6 -> (((x * y) % 2) + ((x * y) % 3)) % 2
      [] mask = 7 -> (((x + y) % 2) + ((x * y) % 3)) % 2

\* A plausible slip: the mask is applied to function modules as well.
apply_mask_AllModules(modules, isfunction, size, mask) ==
    AsList([y \in 1..size |-> AsList([x \in 1..size |->
        modules[y][x] # (MASK_PATTERNS(mask, x - 1, y - 1) = 0)])])

\* QrCode._apply_mask(mask), for 0 <= mask <= 7: every module is XORed with
\* "the mask pattern is 0 here and the module is not a function module".
apply_mask(modules, isfunction, size, mask) ==
    AsList([y \in 1..size |-> AsList([x \in 1..size |->
        modules[y][x] # (MASK_PATTERNS(mask, x - 1, y - 1) = 0 /\ ~isfunction[y][x])])])

\* QrCode._finder_penalty_add_history: the deque (of maximum length 7) after
\* appendleft.
finder_penalty_add_history(currentrunlength, runhistory, size) ==
    <<IF runhistory[1] = 0 THEN currentrunlength + size ELSE currentrunlength>>
        \o SubSeq(runhistory, 1, 6)

\* QrCode._finder_penalty_count_patterns
finder_penalty_count_patterns(runhistory) ==
    LET n    == runhistory[2]
        core == /\ n > 0
                /\ runhistory[3] = n /\ runhistory[5] = n /\ runhistory[6] = n
                /\ runhistory[4] = n * 3
    IN  (IF core /\ runhistory[1] >= n * 4 /\ runhistory[7] >= n THEN 1 ELSE 0)
        + (IF core /\ runhistory[7] >= n * 4 /\ runhistory[1] >= n THEN 1 ELSE 0)

\* QrCode._finder_penalty_terminate_and_count
finder_penalty_terminate_and_count(currentruncolor, currentrunlength, runhistory, size) ==
    LET h1 == IF currentruncolor
              THEN finder_penalty_add_history(currentrunlength, runhistory, size)
              ELSE runhistory
        l1 == (IF currentruncolor THEN 0 ELSE currentrunlength) + size
    IN  finder_penalty_count_patterns(finder_penalty_add_history(l1, h1, size))

\* The variables of a scan along one row or column
ScanState == [runcolor : BOOLEAN, run : Nat, runhistory : Seq(Nat), result : Nat]

\* The body of the inner loop (lines 426-437, and 445-456) for the module of
\* colour cell; result is the penalty added so far.
ScanModule(st, cell, size) ==
    IF cell = st.runcolor
    THEN [st EXCEPT !.run = st.run + 1,
                    !.result = st.result + (IF st.run + 1 = 5 THEN PENALTY_N1
                                            ELSE IF st.run + 1 > 5 THEN 1 ELSE 0)]
    ELSE LET h == finder_penalty_add_history(st.run, st.runhistory, size)
         IN  [runcolor   |-> cell,
              run        |-> 1,
              runhistory |-> h,
              result     |-> st.result
                             + (IF ~st.runcolor
                                THEN finder_penalty_count_patterns(h) * PENALTY_N3
                                ELSE 0)]

\* The inner loop over one row or column, from its n-th module (1-based)
LineScan[line \in Seq(BOOLEAN), size \in Nat, n \in Nat, st \in ScanState] ==
    IF n > Len(line) THEN st ELSE LineScan[line, size, n + 1, ScanModule(st, line[n], size)]

\* The penalty that one iteration of the loop over rows (or columns) adds.
LinePenalty(line, size) ==
    LET st == LineScan[line, size, 1,
                  [runcolor |-> FALSE, run |-> 0,
                   runhistory |-> <<0, 0, 0, 0, 0, 0, 0>>, result |-> 0]]
    IN  st.result
        + finder_penalty_terminate_and_count(st.runcolor, st.run, st.runhistory, size)
          * PENALTY_N3

\* The sum of the first n elements of f, added to acc
SumOf[f \in Seq(Int), n \in Nat, acc \in Int] ==
    IF n = 0 THEN acc ELSE SumOf[f, n - 1, acc + f[n]]

\* A plausible slip: the quotient is rounded down.
BalanceK_Floor(dark, total) == (Abs(dark * 20 - total * 10) \div total) - 1

\* Line 469: k for dark dark modules out of total
BalanceK(dark, total) == ((Abs(dark * 20 - total * 10) + total - 1) \div total) - 1

\* QrCode._get_penalty_score() of a grid
get_penalty_score(modules, size) ==
    LET rows    == AsList([y \in 1..size |-> LinePenalty(modules[y], size)])
        columns == AsList([x \in 1..size |->
                       LinePenalty(AsList([y \in 1..size |-> modules[y][x]]), size)])
        blocks  == Cardinality({c \in (1..(size - 1)) \X (1..(size - 1)) :
                       /\ modules[c[2]][c[1]] = modules[c[2]][c[1] + 1]
                       /\ modules[c[2]][c[1] + 1] = modules[c[2] + 1][c[1]]
                       /\ modules[c[2] + 1][c[1]] = modules[c[2] + 1][c[1] + 1]})
        dark    == Cardinality({c \in (1..size) \X (1..size) : modules[c[2]][c[1]]})
        total   == size * size
        k       == BalanceK(dark, total)
    IN  SumOf[rows, size, 0] + SumOf[columns, size, 0] + blocks * PENALTY_N2 + k * PENALTY_N4

\* Lines 195-197: mask i replaces the candidate when its penalty is lower; st is
\* [modules, msk, minpenalty, penalties], penalties the scores computed so far,
\* and modules the grid that the iteration leaves.
MaskCompare(st, i, modules, penalty) ==
    [modules    |-> modules,
     msk        |-> IF penalty < st.minpenalty THEN i ELSE st.msk,
     minpenalty |-> IF penalty < st.minpenalty THEN penalty ELSE st.minpenalty,
     penalties  |-> Append(st.penalties, penalty)]

\* Lines 194-198 on the grid masked with i: the penalty of that grid, the
\* comparison, and the second apply_mask(i) that undoes the mask.
MaskScore(st, isfunction, size, i, masked) ==
    MaskCompare(st, i, apply_mask(masked, isfunction, size, i),
                get_penalty_score(masked, size))

\* A plausible slip: the trial mask is not undone before the next trial.
MaskTrial_NoUndo(st, isfunction, size, errcorlvl, i) ==
    LET masked  == draw_format_bits(apply_mask(st.modules, isfunction, size, i),
                                    size, errcorlvl, i)
        penalty == get_penalty_score(masked, size)
    IN  [modules    |-> masked,
         msk        |-> IF penalty < st.minpenalty THEN i ELSE st.msk,
         minpenalty |-> IF penalty < st.minpenalty THEN penalty ELSE st.minpenalty,
         penalties  |-> Append(st.penalties, penalty)]

\* A plausible slip: a later mask of equal penalty replaces the earlier one.
MaskTrial_LastWins(st, isfunction, size, errcorlvl, i) ==
    LET masked  == draw_format_bits(apply_mask(st.modules, isfunction, size, i),
                                    size, errcorlvl, i)
        penalty == get_penalty_score(masked, size)
    IN  [modules    |-> apply_mask(masked, isfunction, size, i),
         msk        |-> IF penalty <= st.minpenalty THEN i ELSE st.msk,
         minpenalty |-> IF penalty <= st.minpenalty THEN penalty ELSE st.minpenalty,
         penalties  |-> Append(st.penalties, penalty)]

\* One iteration of "for i in range(8)" (lines 192-198).
MaskTrial(st, isfunction, size, errcorlvl, i) ==
    MaskScore(st, isfunction, size, i,
              draw_format_bits(apply_mask(st.modules, isfunction, size, i),
                               size, errcorlvl, i))

\* The variables of the choice of the mask
MaskState == [modules : Grid, msk : Int, minpenalty : Nat, penalties : Seq(Nat)]

\* The loop "for i in range(8)" from iteration i.
MaskTrials[st \in MaskState, isfunction \in Grid, size \in Nat, errcorlvl \in Ecc, i \in Nat] ==
    IF i >= 8 THEN st
    ELSE MaskTrials[MaskTrial(st, isfunction, size, errcorlvl, i),
                    isfunction, size, errcorlvl, i + 1]

\* The variables of the constructor before line 189. The code starts minpenalty
\* at 1 << 32, above every penalty score; that value is beyond the integers of
\* the model checker, and the model starts one above the upper bound that
\* _get_penalty_score asserts for its result (line 472), which the comparison
\* "penalty < minpenalty" cannot tell from 1 << 32.
MaskStart(modules, msk) ==
    [modules |-> modules, msk |-> msk, minpenalty |-> MAX_PENALTY + 1, penalties |-> <<>>]

\* A plausible slip: the masks are tried even when the caller forces one.
ChooseMask_Always(modules, isfunction, size, errcorlvl, msk) ==
    MaskTrials[MaskStart(modules, msk), isfunction, size, errcorlvl, 0]

\* Lines 189-198: the automatic choice of the mask, made only for msk = -1.
ChooseMask(modules, isfunction, size, errcorlvl, msk) ==
    IF msk = -1
    THEN MaskTrials[MaskStart(modules, msk), isfunction, size, errcorlvl, 0]
    ELSE MaskStart(modules, msk)

\* The grid before masking (lines 184-186): function patterns, then the
\* codewords with their error correction.
UnmaskedGrid(version, errcorlvl, datacodewords) ==
    draw_codewords(draw_function_patterns(version, errcorlvl), version,
                   add_ecc_and_interleave(version, errcorlvl, datacodewords))

\* Lines 199-202 of the constructor, after the mask was chosen: the assertion
\* on the mask, the final apply_mask and _draw_format_bits.
FinishQrCode(version, errcorlvl, grid, chosen) ==
    IF ~grid.asserted \/ ~(0 <= chosen.msk /\ chosen.msk <= 7)
    THEN Raised("AssertionError", [text |-> "assert", used |-> None, cap |-> None])
    ELSE [status     |-> "ok",
          version    |-> version,
          size       |-> version * 4 + 17,
          errcorlvl  |-> errcorlvl,
          mask       |-> chosen.msk,
          modules    |-> draw_format_bits(
                             apply_mask(chosen.modules, grid.isfunction,
                                        version * 4 + 17, chosen.msk),
                             version * 4 + 17, errcorlvl, chosen.msk),
          penalties  |-> chosen.penalties]

\* Lines 188-202 of the constructor on the unmasked grid: the choice of the
\* mask, then the rest.
MaskGrid(version, errcorlvl, msk, grid) ==
    FinishQrCode(version, errcorlvl, grid,
                 ChooseMask(grid.modules, grid.isfunction, version * 4 + 17, errcorlvl, msk))

\* The constructor QrCode(version, errcorlvl, datacodewords, msk): the fields of
\* the new object, with the penalties that the choice of the mask computed.
QrCode(version, errcorlvl, datacodewords, msk) ==
    IF ~(MIN_VERSION <= version /\ version <= MAX_VERSION)
    THEN Raised("ValueError", [text |-> "Version value out of range", used |-> None, cap |-> None])
    ELSE IF ~(-1 <= msk /\ msk <= 7)
    THEN Raised("ValueError", [text |-> "Mask value out of range", used |-> None, cap |-> None])
    ELSE MaskGrid(version, errcorlvl, msk, UnmaskedGrid(version, errcorlvl, datacodewords))

\* Lines 105-132 of encode_segments, reached when nothing was raised before:
\* the data codewords at the version and level selected in sel, and the
\* constructor call.
CreateQrCode(sel, segs, mask) ==
    IF sel.status # "ok" THEN sel
    ELSE QrCode(sel.version, sel.ecl, DataCodewords(segs, sel.version, sel.ecl), mask)

\* QrCode.encode_segments(segs, ecl, minversion, maxversion, mask, boostecl) on
\* bit-exact segments: the new QrCode, or what is raised.
encode_segments(segs, ecl, minversion, maxversion, mask, boostecl) ==
    CreateQrCode(encode_segments_shape(ShapesOf(segs), ecl, minversion, maxversion,
                                       mask, boostecl),
                 segs, mask)

\* A plausible slip: the coordinates index the grid without the bounds test, as
\* Python lists do (a negative index counts from the end).
get_module_NoBounds(qr, x, y) ==
    /\ -qr.size <= x /\ x < qr.size
    /\ -qr.size <= y /\ y < qr.size
    /\ qr.modules[(y % qr.size) + 1][(x % qr.size) + 1]

\* QrCode.get_module(x, y) of the symbol qr.
get_module(qr, x, y) ==
    /\ 0 <= x /\ x < qr.size
    /\ 0 <= y /\ y < qr.size
    /\ qr.modules[y + 1][x + 1]

(***************************************************************************)
(* Specification Spec: encode_segments on the segments of a text, down to  *)
(* the module grid, followed by a second call with the version, the level  *)
(* and the mask of the first result.                                       *)
(***************************************************************************)
\* The text of n characters first, first + 1, ..., cycling with the given period
GridText(first, period, n) == AsList([i \in 1..n |-> first + ((i - 1) % period)])

\* Digits "0123456789012...", and lower-case letters "abcdefg..."
GridTexts ==
    {GridText(48, 10, k * PayloadStep) : k \in 0..MaxPayloadSteps}
        \cup {GridText(97, 26, k * PayloadStep) : k \in 1..MaxPayloadSteps}

\* Mask arguments: the accepted ones, -1..7, and one on either side
GridMasks == -2..8

GridArgs ==
    [text : GridTexts, ecl : Ecc, minversion : {MIN_VERSION}, maxversion : {MaxGridVersion},
     mask : GridMasks, boostecl : BOOLEAN]

NoRerun == [boostecl |-> FALSE, qr |-> NoResult]

Init ==
    /\ pc = "call"
    /\ args \in GridArgs
    /\ res = NoResult
    /\ res2 = NoRerun

\* The caller invokes encode_segments(make_segments(text), ecl, minversion,
\* maxversion, mask, boostecl).
EncodeSegments ==
    /\ pc = "call"
    /\ res' = encode_segments(make_segments(args.text), args.ecl, args.minversion,
                              args.maxversion, args.mask, args.boostecl)
    /\ pc' = "done"
    /\ UNCHANGED <<args, res2>>

\* The caller encodes the same segments again with the mask, the level and the
\* version of the result q: encode_segments(segs, q.get_error_correction_level(),
\* q.get_version(), q.get_version(), q.get_mask(), boostecl).
Rerun(boostecl) ==
    /\ pc = "done"
    /\ res.status = "ok"
    /\ res2' = [boostecl |-> boostecl,
                qr       |-> encode_segments(make_segments(args.text), res.errcorlvl,
                                 res.version, res.version, res.mask, boostecl)]
    /\ pc' = "rerun"
    /\ UNCHANGED <<args, res>>

\* Coordinates a caller asks for on a symbol of the given size: print_qr of
\* the demo walks -border .. size + border - 1 with border = 4, so both ends
\* of the grid, the timing row and points on either side of the grid.
Coordinates(size) == {-size, -Border, -1, 0, 6, size - 1, size, size + Border - 1}

\* The caller reads one module of the result: qr.get_module(x, y).
GetModule ==
    /\ pc = "done"
    /\ res.status = "ok"
    /\ \E x \in Coordinates(res.size), y \in Coordinates(res.size) :
           res2' = [x |-> x, y |-> y, value |-> get_module(res, x, y)]
    /\ pc' = "module"
    /\ UNCHANGED <<args, res>>

\* The names that class QrCode defines (lines 32-660 of qrcodegen.py): what an
\* attribute lookup on a symbol finds.
QrCodeAttributes ==
    {"encode_text", "encode_binary", "encode_segments", "__init__",
     "get_version", "get_size", "get_error_correction_level", "get_mask", "get_module",
     "_draw_function_patterns", "_draw_format_bits", "_draw_version",
     "_draw_finder_pattern", "_draw_alignment_pattern", "_set_function_module",
     "_add_ecc_and_interleave", "_draw_codewords", "_apply_mask", "_get_penalty_score",
     "_get_alignment_pattern_positions", "_get_num_raw_data_modules",
     "_get_num_data_codewords", "_reed_solomon_compute_divisor",
     "_reed_solomon_compute_remainder", "_reed_solomon_multiply",
     "_finder_penalty_count_patterns", "_finder_penalty_terminate_and_count",
     "_finder_penalty_add_history", "MIN_VERSION", "MAX_VERSION", "_PENALTY_N1",
     "_PENALTY_N2", "_PENALTY_N3", "_PENALTY_N4", "_ECC_CODEWORDS_PER_BLOCK",
     "_NUM_ERROR_CORRECTION_BLOCKS", "_MASK_PATTERNS", "Ecc",
     "_version", "_size", "_errcorlvl", "_mask", "_modules", "_isfunction"}

\* Python's qr.<name>(...) on a symbol: the call goes ahead when the class
\* defines the name, and raises AttributeError otherwise.
CallMethod(name) ==
    IF name \in QrCodeAttributes
    THEN [status |-> "ok", name |-> name]
    ELSE Raised("AttributeError", [text |-> "'QrCode' object has no attribute",
                                   used |-> None, cap |-> None])

\* do_basic_demo, line 49: print(qr.to_svg_str(border)) on the result.
ToSvgStr(border) ==
    /\ pc = "done"
    /\ res.status = "ok"
    /\ res2' = [border |-> border, call |-> CallMethod("to_svg_str")]
    /\ pc' = "svg"
    /\ UNCHANGED <<args, res>>

Next ==
    \/ EncodeSegments
    \/ \E boostecl \in BOOLEAN : Rerun(boostecl)
    \/ GetModule
    \/ \E border \in {0, Border} : ToSvgStr(border)

Spec == Init /\ [][Next]_vars

\* C5: after the constructor returns, the mask of the symbol is in 0..7: a
\* forced mask 0..7 is kept as it is, and the request -1 is replaced by one of
\* the eight masks; with an accepted mask argument the constructor does return
\* whenever a version holds the data.
C5_MaskInRange ==
    pc # "call" =>
        /\ args.mask \in -1..7 => res.status \in {"ok", "DataTooLongError"}
        /\ res.status = "ok" =>
              /\ res.mask \in 0..7
              /\ args.mask \in 0..7 => res.mask = args.mask

\* An automatic request was replaced by a mask other than 0.
C5_Witness ==
    /\ pc = "done"
    /\ args.mask = -1
    /\ res.status = "ok"
    /\ res.mask \in 1..7

\* The penalty scores of the eight masks on the unmasked grid of a result: mask
\* k applied, the format bits of k drawn, the score taken.
PenaltiesOf(text, qr) ==
    LET cw   == DataCodewords(make_segments(text), qr.version, qr.errcorlvl)
        grid == UnmaskedGrid(qr.version, qr.errcorlvl, cw)
    IN  AsList([k \in 1..8 |->
            get_penalty_score(
                draw_format_bits(
                    apply_mask(grid.modules, grid.isfunction, qr.size, k - 1),
                    qr.size, qr.errcorlvl, k - 1),
                qr.size)])

\* C6: with mask -1 the constructor commits a mask whose penalty score is the
\* minimum of the scores of masks 0..7 on the same unmasked grid, and the lowest
\* such mask; the scores it computes in the loop are those scores.
C6_MinPenaltyLowestIndex ==
    (pc = "done" /\ args.mask = -1 /\ res.status = "ok") =>
        LET pens == PenaltiesOf(args.text, res)
        IN  /\ res.penalties = pens
            /\ \A k \in 0..7 :
                  /\ pens[res.mask + 1] <= pens[k + 1]
                  /\ pens[k + 1] = pens[res.mask + 1] => res.mask <= k

\* An automatic choice where two masks share the minimum score.
C6_Witness ==
    /\ pc = "done"
    /\ args.mask = -1
    /\ res.status = "ok"
    /\ \E k \in 0..7 :
          /\ k # res.mask
          /\ res.penalties[k + 1] = res.penalties[res.mask + 1]

\* C7 as it reads: whatever boostecl the second call is given, it succeeds and
\* its grid equals the first one in every module.
C7_Original ==
    pc = "rerun" =>
        /\ res2.qr.status = "ok"
        /\ res2.qr.modules = res.modules

\* C7: the second call, made with the mask, the level and the version of the
\* first result, succeeds and gives the same grid in every module, provided it
\* does not switch on boostecl when the first call had it off.
C7_RerunSameGrid ==
    (pc = "rerun" /\ (res2.boostecl => args.boostecl)) =>
        /\ res2.qr.status = "ok"
        /\ res2.qr.modules = res.modules

\* An automatically masked grid was reproduced by forcing the chosen mask.
C7_Witness ==
    /\ pc = "rerun"
    /\ args.mask = -1
    /\ res.mask \in 1..7
    /\ res2.boostecl = args.boostecl
    /\ res2.qr.status = "ok"
    /\ res2.qr.modules = res.modules

\* C14: get_module(x, y) is modules[y][x] when both coordinates are inside the
\* grid, and false (light) at every other coordinate, negative ones included;
\* it always returns a Boolean.
C14_GetModule ==
    pc = "module" =>
        /\ res2.value \in BOOLEAN
        /\ res2.value =
              IF res2.x \in 0..(res.size - 1) /\ res2.y \in 0..(res.size - 1)
              THEN res.modules[res2.y + 1][res2.x + 1]
              ELSE FALSE

\* The caller asked for the module one place left of the top row, where an
\* index counted from the end of the row would find a dark module.
C14_Witness ==
    /\ pc = "module"
    /\ res2.x = -1
    /\ res2.y = 0
    /\ res.modules[1][res.size]
    /\ ~res2.value

\* C18: the symbol offers to_svg(border): with a border of 0 or more the call
\* made by do_basic_demo on a symbol goes ahead rather than raising.
C18_OffersToSvg ==
    (pc = "svg" /\ res2.border >= 0) => res2.call.status = "ok"

\* do_basic_demo asked a symbol for its SVG text with the border it uses, and
\* the lookup of the method raised AttributeError.
C18_Witness ==
    /\ pc = "svg"
    /\ res2.border = Border
    /\ res.status = "ok"
    /\ res2.call.status = "AttributeError"

(***************************************************************************)
(* Specification SpecWorker: the loop of qrcodegen-worker.py.  args is     *)
(* the list of requests still on standard input (the terminator -1 follows *)
(* them); res is what the loop has printed; res2 is the exception that     *)
(* left main, if any.                                                      *)
(***************************************************************************)
ECC_LEVELS == <<LOW, MEDIUM, QUARTILE, HIGH>>

\* A message e with e.args[0] == "Data too long"
DataTooLongLiteral == [text |-> "Data too long", used |-> None, cap |-> None]

\* Lines 56-61 of the worker: the segments of the bytes read
WorkerSegments(data) ==
    IF \A i \in 1..Len(data) : data[i] < 128
    THEN make_segments(data)
    ELSE <<make_bytes(data)>>

\* A plausible slip: the two loops are nested the other way round.
WorkerLines_ColumnMajor(qr) ==
    <<qr.version>>
        \o AsList([k \in 1..(qr.size * qr.size) |->
               IF get_module(qr, (k - 1) \div qr.size, (k - 1) % qr.size)
               THEN 1 ELSE 0])

\* Lines 66-69: the version, then get_module(x, y) for y in range(size), for x
\* in range(size); line k (1-based) of the modules is that of y = (k - 1) // size
\* and x = (k - 1) % size.
WorkerLines(qr) ==
    <<qr.version>>
        \o AsList([k \in 1..(qr.size * qr.size) |->
               IF get_module(qr, (k - 1) % qr.size, (k - 1) \div qr.size)
               THEN 1 ELSE 0])

\* Lines 65-74 on the outcome r of encode_segments: what is printed and whether
\* an exception leaves the loop. The except clause catches ValueError, of which
\* DataTooLongError is a subclass, and raises it again unless its message is
\* "Data too long".
WorkerReport(r) ==
    IF r.status = "ok"
    THEN [outcome |-> "ok", printed |-> WorkerLines(r), raised |-> NoResult]
    ELSE IF r.status \in {"ValueError", "DataTooLongError"} /\ r.msg = DataTooLongLiteral
    THEN [outcome |-> r.status, printed |-> <<-1>>, raised |-> NoResult]
    ELSE [outcome |-> r.status, printed |-> <<>>, raised |-> r]

\* Lines 56-59 raise ValueError before the try statement: chr(b) for b < 0 when
\* every value is below 128, bytes(data) for a value outside 0..255 otherwise.
WorkerDataRaises(data) ==
    IF \A i \in 1..Len(data) : data[i] < 128
    THEN \E i \in 1..Len(data) : data[i] < 0
    ELSE \E i \in 1..Len(data) : data[i] > 255 \/ data[i] < 0

\* An exception r that no except clause of the loop handles.
WorkerRaises(r) == [outcome |-> r.status, printed |-> <<>>, raised |-> r]

\* One iteration of the loop for a request: the segments of the data, then
\* encode_segments with the parameters read, then the report. ECC_LEVELS is a
\* tuple of four: ECC_LEVELS[errcorlvl] raises IndexError outside -4..3, and a
\* negative index counts from the end.
WorkerIteration(req) ==
    IF WorkerDataRaises(req.data)
    THEN WorkerRaises(Raised("ValueError", [text |-> "arg not in range", used |-> None,
                                            cap |-> None]))
    ELSE IF ~(-4 <= req.errcorlvl /\ req.errcorlvl <= 3)
    THEN WorkerRaises(Raised("IndexError", [text |-> "tuple index out of range",
                                            used |-> None, cap |-> None]))
    ELSE WorkerReport(encode_segments(WorkerSegments(req.data),
                                      ECC_LEVELS[(req.errcorlvl % 4) + 1],
                                      req.minversion, req.maxversion, req.mask,
                                      req.boostecl # 0))

\* Requests: digits, ASCII letters, and bytes above 127, at versions 1..1
WorkerData ==
    {GridText(48, 10, PayloadStep), GridText(97, 26, 2 * PayloadStep),
     GridText(200, 1, 3 * PayloadStep)}

WorkerRequests ==
    [data : WorkerData, errcorlvl : {0, 2}, minversion : {MIN_VERSION},
     maxversion : {MIN_VERSION}, mask : {2}, boostecl : {0, 1}]

WorkerStreams == UNION {[1..n -> WorkerRequests] : n \in 0..MaxRequests}

WorkerStart == [outcome |-> "none", printed |-> <<>>, out |-> <<>>]

InitWorker ==
    /\ pc = "running"
    /\ args \in WorkerStreams
    /\ res = WorkerStart
    /\ res2 = NoResult

\* The end of an iteration it: its lines are on standard output, and the loop
\* goes on unless an exception left it.
WorkerContinue(it) ==
    /\ res' = [outcome |-> it.outcome, printed |-> it.printed,
               out |-> res.out \o it.printed]
    /\ res2' = it.raised
    /\ pc' = IF it.raised = NoResult THEN "running" ELSE "raised"

\* The loop reads a request, encodes it and prints the result.
WorkerRequest ==
    /\ pc = "running"
    /\ args # <<>>
    /\ WorkerContinue(WorkerIteration(Head(args)))
    /\ args' = Tail(args)

\* The loop reads the terminator -1 and main returns.
WorkerExit ==
    /\ pc = "running"
    /\ args = <<>>
    /\ pc' = "exited"
    /\ UNCHANGED <<args, res, res2>>

NextWorker == WorkerRequest \/ WorkerExit

SpecWorker == InitWorker /\ [][NextWorker]_vars

\* C10: whenever encode_segments fails with DataTooLongError for the request
\* read, the worker prints the single line -1 and goes on to the next request.
C10_PrintsMinusOne ==
    res.outcome = "DataTooLongError" => (res.printed = <<-1>> /\ pc # "raised")

\* The data of a request did not fit and the exception left the loop with
\* nothing printed.
C10_Witness ==
    /\ res.outcome = "DataTooLongError"
    /\ pc = "raised"
    /\ res.printed = <<>>
    /\ res2.status = "DataTooLongError"

(***************************************************************************)
(* Specification SpecRead: the loop of qrcodegen-worker.py line by line.   *)
(* Standard input is a sequence of integers, one per line. args is         *)
(* [stdin, pos, got]: the input, the number of lines read_int has          *)
(* consumed, and the lines read in the current iteration; res is what the  *)
(* loop has printed, as in SpecWorker; res2 is the exception that left     *)
(* main, if any.  pc is "running" at the top of the loop, "reading" inside *)
(* the reads of an iteration, "encode" at line 55.                         *)
(***************************************************************************)
\* The number of lines an iteration reads when its first line is length:
\* length itself, range(length) values, and the five parameters.
LinesOfRequest(length) == 1 + Max(length, 0) + 5

\* A plausible slip: mask and boostecl are read in the other order.
RequestOf_BoostFirst(got) ==
    [data       |-> SubSeq(got, 2, Max(got[1], 0) + 1),
     errcorlvl  |-> got[Max(got[1], 0) + 2],
     minversion |-> got[Max(got[1], 0) + 3],
     maxversion |-> got[Max(got[1], 0) + 4],
     mask       |-> got[Max(got[1], 0) + 6],
     boostecl   |-> got[Max(got[1], 0) + 5]]

\* Lines 43-53: the variables of an iteration, from the lines got that it read
\* in order: length, data, errcorlvl, minversion, maxversion, mask, boostecl.
RequestOf(got) ==
    [data       |-> SubSeq(got, 2, Max(got[1], 0) + 1),
     errcorlvl  |-> got[Max(got[1], 0) + 2],
     minversion |-> got[Max(got[1], 0) + 3],
     maxversion |-> got[Max(got[1], 0) + 4],
     mask       |-> got[Max(got[1], 0) + 5],
     boostecl   |-> got[Max(got[1], 0) + 6]]

\* The lines that a client writes for a request (batch test, do_trial).
LinesOf(req) ==
    <<Len(req.data)>> \o req.data
        \o <<req.errcorlvl, req.minversion, req.maxversion, req.mask, req.boostecl>>

\* First requests: well-formed ones (a mask of -1 among them), then one with
\* each parameter out of range, data bytes out of range, and a negative length.
ReadWellFormed ==
    [data : {<<>>, <<55>>, <<75, 200>>}, errcorlvl : {0, 2}, minversion : {MIN_VERSION},
     maxversion : {MIN_VERSION}, mask : {-1, 2}, boostecl : {0}]

ReadBase ==
    [data |-> <<55>>, errcorlvl |-> 0, minversion |-> MIN_VERSION,
     maxversion |-> MIN_VERSION, mask |-> 2, boostecl |-> 0]

ReadMalformed ==
    {[ReadBase EXCEPT !.errcorlvl = e] : e \in {-1, 4}}
        \cup {[ReadBase EXCEPT !.minversion = 0], [ReadBase EXCEPT !.maxversion = 41]}
        \cup {[ReadBase EXCEPT !.mask = m] : m \in {-2, 8}}
        \cup {[ReadBase EXCEPT !.data = d] : d \in {<<256>>, <<-1>>, <<-1, 200>>}}

\* The requests that may follow the first one
ReadFollowUps == {ReadBase, [ReadBase EXCEPT !.errcorlvl = 4]}

RECURSIVE ReadConcat(_)
ReadConcat(reqs) == IF reqs = <<>> THEN <<>> ELSE LinesOf(Head(reqs)) \o ReadConcat(Tail(reqs))

\* Standard input: the lines of up to MaxRequests requests, or of a request
\* with length -2; then the terminator -1, the terminator and one more line,
\* or nothing; and the same input cut two lines short.
ReadStreams ==
    LET bodies ==
            {<<>>, <<-2, 0, MIN_VERSION, MIN_VERSION, 2, 0>>}
                \cup {LinesOf(first) \o ReadConcat(rest) :
                        first \in ReadWellFormed \cup ReadMalformed,
                        rest \in UNION {[1..n -> ReadFollowUps] : n \in 0..(MaxRequests - 1)}}
        whole == {b \o t : b \in bodies, t \in {<<>>, <<-1>>, <<-1, 7>>}}
    IN  whole \cup {SubSeq(w, 1, Len(w) - 2) : w \in {v \in whole : Len(v) >= 2}}

InitRead ==
    /\ pc = "running"
    /\ \E stdin \in ReadStreams : args = [stdin |-> stdin, pos |-> 0, got |-> <<>>]
    /\ res = WorkerStart
    /\ res2 = NoResult

\* Lines 43-45: read_int() for length; -1 leaves the loop.
ReadLength ==
    /\ pc = "running"
    /\ args.pos < Len(args.stdin)
    /\ args' = [args EXCEPT !.pos = @ + 1, !.got = <<args.stdin[args.pos + 1]>>]
    /\ pc' = IF args.stdin[args.pos + 1] = -1 THEN "exited" ELSE "reading"
    /\ UNCHANGED <<res, res2>>

\* Lines 46-53: one more read_int() of the iteration; after the last one the
\* loop is at line 55.
ReadInt ==
    /\ pc = "reading"
    /\ args.pos < Len(args.stdin)
    /\ args' = [args EXCEPT !.pos = @ + 1, !.got = Append(@, args.stdin[args.pos + 1])]
    /\ pc' = IF Len(args.got) + 1 = LinesOfRequest(args.got[1]) THEN "encode" ELSE "reading"
    /\ UNCHANGED <<res, res2>>

\* read_int() at the end of the input: input() raises EOFError, which leaves main.
ReadEof ==
    /\ pc \in {"running", "reading"}
    /\ args.pos = Len(args.stdin)
    /\ pc' = "raised"
    /\ res' = [outcome |-> "EOFError", printed |-> <<>>, out |-> res.out]
    /\ res2' = Raised("EOFError", [text |-> "EOF when reading a line", used |-> None,
                                   cap |-> None])
    /\ UNCHANGED args

\* Lines 55-75: the segments, encode_segments, and the lines printed.
Respond ==
    /\ pc = "encode"
    /\ WorkerContinue(WorkerIteration(RequestOf(args.got)))
    /\ UNCHANGED args

NextRead == ReadLength \/ ReadInt \/ ReadEof \/ Respond

SpecRead == InitRead /\ [][NextRead]_vars

\* The lines of the current iteration are the last Len(got) lines consumed, in
\* the order of the input.
GotInOrder ==
    /\ Len(args.got) <= args.pos
    /\ args.got = SubSeq(args.stdin, args.pos - Len(args.got) + 1, args.pos)

\* C11: every iteration reads length first; on -1 the loop exits, reading
\* nothing more and printing nothing; otherwise (length being a count, 0 or
\* more) it reads exactly length byte values and then errcorlvl, minversion,
\* maxversion, mask, boostecl in that order, each the next line of the input;
\* and output is written only at the end of an iteration, when all the lines of
\* its request have been read, by a step that reads nothing.
C11_ReadOrder ==
    /\ [](/\ GotInOrder
          /\ pc = "exited" => args.got = <<-1>>
          /\ pc \in {"reading", "encode"} =>
                /\ args.got # <<>>
                /\ args.got[1] # -1
                /\ Len(args.got) <= LinesOfRequest(args.got[1])
          /\ pc = "reading" => Len(args.got) < LinesOfRequest(args.got[1])
          /\ (pc = "encode" /\ args.got[1] >= 0) =>
                LET length == args.got[1]
                    first  == args.pos - Len(args.got)
                    req    == RequestOf(args.got)
                IN  /\ Len(args.got) = length + 6
                    /\ args.stdin[first + 1] = length
                    /\ Len(req.data) = length
                    /\ \A i \in 1..length : req.data[i] = args.stdin[first + 1 + i]
                    /\ req.errcorlvl = args.stdin[first + length + 2]
                    /\ req.minversion = args.stdin[first + length + 3]
                    /\ req.maxversion = args.stdin[first + length + 4]
                    /\ req.mask = args.stdin[first + length + 5]
                    /\ req.boostecl = args.stdin[first + length + 6])
    /\ [][/\ pc # "exited"
          /\ pc' = "exited" =>
                /\ pc = "running"
                /\ args.stdin[args.pos + 1] = -1
                /\ args'.pos = args.pos + 1
                /\ res' = res
          /\ res'.out # res.out =>
                /\ pc = "encode"
                /\ Len(args.got) = LinesOfRequest(args.got[1])
                /\ args' = args
          /\ pc = "running" => args'.pos = args.pos \/ args'.got = <<args.stdin[args.pos + 1]>>
         ]_vars

\* A request whose mask line is -1 was read to the end and answered, and the
\* loop then left on the terminator with a line of input still unread.
C11_Witness ==
    /\ pc = "exited"
    /\ res.outcome = "ok"
    /\ Len(res.out) > 1
    /\ args.pos < Len(args.stdin)
    /\ \E i \in 2..(args.pos - 1) : args.stdin[i] = -1

\* The iteration of the request in got has ended: the loop is back at its top,
\* or an exception of that iteration left main.
Responded ==
    /\ pc \in {"running", "raised"}
    /\ args.got # <<>>
    /\ Len(args.got) = LinesOfRequest(args.got[1])
    /\ res.outcome # "EOFError"

\* C12: on a successful encoding the worker prints the version on one line and
\* then exactly size * size lines (size = version * 4 + 17), each 0 or 1, line
\* y * size + x of them giving get_module(x, y); they are on standard output
\* when no line after the request has been read.
C12_PrintsSymbol ==
    (Responded /\ res.outcome = "ok") =>
        LET req  == RequestOf(args.got)
            qr   == encode_segments(WorkerSegments(req.data),
                                    ECC_LEVELS[(req.errcorlvl % 4) + 1], req.minversion,
                                    req.maxversion, req.mask, req.boostecl # 0)
            size == qr.version * 4 + 17
        IN  /\ qr.status = "ok"
            /\ Len(res.printed) = 1 + size * size
            /\ res.printed[1] = qr.version
            /\ \A y \in 0..(size - 1) : \A x \in 0..(size - 1) :
                  res.printed[1 + y * size + x + 1] = IF get_module(qr, x, y) THEN 1 ELSE 0
            /\ Len(res.out) >= Len(res.printed)
            /\ SubSeq(res.out, Len(res.out) - Len(res.printed) + 1, Len(res.out)) = res.printed
            /\ GotInOrder
            /\ pc = "running"

\* A symbol was printed for the second request of the input.
C12_Witness ==
    /\ Responded
    /\ res.outcome = "ok"
    /\ Len(res.out) > Len(res.printed)
    /\ Len(res.printed) = 1 + 21 * 21

\* What the claim calls malformed input that is out of range.
OutOfRange(req) ==
    \/ req.errcorlvl \notin 0..3
    \/ req.minversion \notin MIN_VERSION..MAX_VERSION
    \/ req.maxversion \notin MIN_VERSION..MAX_VERSION
    \/ req.mask \notin -1..7
    \/ \E i \in 1..Len(req.data) : req.data[i] \notin 0..255

\* C13: every request with an errcorlvl outside 0..3, a version outside 1..40,
\* a mask outside -1..7 or a byte value outside 0..255 ends in a ValueError that
\* terminates the worker, and no symbol is printed for it.
C13_OutOfRangeIsValueError ==
    (Responded /\ OutOfRange(RequestOf(args.got))) =>
        /\ pc = "raised"
        /\ res.outcome = "ValueError"
        /\ res.printed = <<>>

\* An errcorlvl of -1 was taken as ECC_LEVELS[-1] and a symbol was printed.
C13_Witness ==
    /\ Responded
    /\ RequestOf(args.got).errcorlvl = -1
    /\ res.outcome = "ok"
    /\ pc = "running"
    /\ Len(res.printed) = 1 + 21 * 21

(***************************************************************************)
(* Specification SpecSegments: the segment factories on texts, and the     *)
(* data bit string that encode_segments builds of a list of segments.      *)
(***************************************************************************)
\* The text of n characters of the alphanumeric alphabet, in the order of the
\* encoding table, from the character of index first and wrapping around.
CharsetText(first, n) ==
    AsList([i \in 1..n |-> ALPHANUMERIC_CHARSET[((first + i - 1) % 45) + 1]])

\* 'k', e-acute (2 bytes), euro sign (3 bytes), U+1F600 (4 bytes), '7', 'K'
MixedCodePoints == <<107, 233, 8364, 128512, 55, 75>>
MixedText(n) == AsList([i \in 1..n |-> MixedCodePoints[((i - 1) % 6) + 1]])

\* Texts of 0..MaxSegLen characters: "0123...", "999...", " $%*+-./:012...",
\* "ABC...", "7890...:" (digits, then other characters from the eighth on),
\* "klm..." and the mixed text.
SegTexts ==
    UNION {{GridText(48, 10, n), GridText(57, 1, n), CharsetText(36, n), CharsetText(10, n),
            CharsetText(7, n), GridText(107, 19, n), MixedText(n)} : n \in 0..MaxSegLen}

\* The second part of a two-part input, when there is one.
SegSeconds == {GridText(48, 10, MaxSegLen), CharsetText(10, 3), MixedText(2), GridText(107, 19, 1)}

SegParts == {<<t>> : t \in SegTexts} \cup {<<t, u>> : t \in SegTexts, u \in SegSeconds}

\* One segment list for the parts of an input, each made by make_segments, as
\* do_segment_demo lists the segments of the parts of its texts.
RECURSIVE SegmentsOfParts(_)
SegmentsOfParts(parts) ==
    IF parts = <<>> THEN <<>> ELSE make_segments(Head(parts)) \o SegmentsOfParts(Tail(parts))

NoData == [sel |-> NoResult, bits |-> <<>>, datacodewords |-> <<>>]

InitSegments ==
    /\ pc = "call"
    /\ args \in [parts : SegParts, ecl : Ecc, boostecl : BOOLEAN,
                 minversion : {MIN_VERSION}, maxversion : {MaxGridVersion}]
    /\ res = <<>>
    /\ res2 = NoData

\* segs = QrSegment.make_segments(text) for each part.
MakeSegments ==
    /\ pc = "call"
    /\ res' = SegmentsOfParts(args.parts)
    /\ pc' = "segs"
    /\ UNCHANGED <<args, res2>>

\* QrSegment.make_numeric(text) on a one-part input: the segment, or the
\* ValueError of line 691.
MakeNumeric ==
    /\ pc = "call"
    /\ Len(args.parts) = 1
    /\ res' = IF \A i \in 1..Len(args.parts[1]) : args.parts[1][i] \in NumericCodePoints
              THEN <<make_numeric(args.parts[1])>>
              ELSE <<Raised("ValueError", [text |-> "String contains non-numeric characters",
                                           used |-> None, cap |-> None])>>
    /\ pc' = "numeric"
    /\ UNCHANGED <<args, res2>>

\* QrSegment.make_alphanumeric(text) on a one-part input: the segment, or the
\* ValueError of line 707.
MakeAlphanumeric ==
    /\ pc = "call"
    /\ Len(args.parts) = 1
    /\ res' = IF \A i \in 1..Len(args.parts[1]) : args.parts[1][i] \in AlphanumericCodePoints
              THEN <<make_alphanumeric(args.parts[1])>>
              ELSE <<Raised("ValueError", [text |-> "String contains unencodable characters",
                                           used |-> None, cap |-> None])>>
    /\ pc' = "alphanumeric"
    /\ UNCHANGED <<args, res2>>

\* Lines 127-132 of encode_segments: the bytes packed of the bit buffer, which
\* go to the constructor.
PackedData(sel, bits) == [sel |-> sel, bits |-> bits, datacodewords |-> PackBytes(bits)]

\* Lines 105-132 of encode_segments for the version and level selected in sel,
\* when nothing was raised before.
EncodedData(sel, segs) ==
    IF sel.status # "ok" THEN [sel |-> sel, bits |-> <<>>, datacodewords |-> <<>>]
    ELSE PackedData(sel, DataBits(segs, sel.version, sel.ecl))

\* QrCode.encode_segments(segs, ecl, minversion, maxversion, -1, boostecl) up to
\* the constructor call: the selection, the bit buffer and the data codewords.
EncodeData ==
    /\ pc = "segs"
    /\ res2' = EncodedData(encode_segments_shape(ShapesOf(res), args.ecl, args.minversion,
                                                 args.maxversion, -1, args.boostecl), res)
    /\ pc' = "data"
    /\ UNCHANGED <<args, res>>

NextSegments == MakeSegments \/ MakeNumeric \/ MakeAlphanumeric \/ EncodeData

SpecSegments == InitSegments /\ [][NextSegments]_vars

\* The UTF-8 bytes of the code points that the texts are made of, as the
\* standard lists them: e-acute C3 A9, euro sign E2 82 AC, U+1F600 F0 9F 98 80,
\* and one byte for each ASCII character.
KnownUtf8(cp) ==
    IF cp = 233 THEN <<195, 169>>
    ELSE IF cp = 8364 THEN <<226, 130, 172>>
    ELSE IF cp = 128512 THEN <<240, 159, 152, 128>>
    ELSE <<cp>>

RECURSIVE KnownUtf8Text(_)
KnownUtf8Text(text) ==
    IF text = <<>> THEN <<>> ELSE KnownUtf8(Head(text)) \o KnownUtf8Text(Tail(text))

\* The text has only characters of "0123456789ABCDEFGHIJKLMNOPQRSTUVWXYZ $%*+-./:"
InAlphabet(text) ==
    \A i \in 1..Len(text) : \E k \in 1..45 : ALPHANUMERIC_CHARSET[k] = text[i]

AllDigits(text) == \A i \in 1..Len(text) : text[i] \in 48..57

\* C15: make_segments(text) is the empty list for the empty text, one NUMERIC
\* segment for a text of digits only, else one ALPHANUMERIC segment for a text
\* over the 45-character alphabet, else one BYTE segment holding the UTF-8
\* encoding of the text; there is never more than one segment.
C15_MakeSegments ==
    (pc = "segs" /\ Len(args.parts) = 1) =>
        LET text == args.parts[1]
        IN  /\ Len(res) <= 1
            /\ text = <<>> => res = <<>>
            /\ text # <<>> =>
                /\ Len(res) = 1
                /\ res[1].mode = IF AllDigits(text) THEN NUMERIC
                                 ELSE IF InAlphabet(text) THEN ALPHANUMERIC
                                 ELSE BYTE
                /\ res[1].mode \in {NUMERIC, ALPHANUMERIC} => res[1].numchars = Len(text)
                /\ res[1].mode = BYTE =>
                     /\ res[1].numchars = Len(KnownUtf8Text(text))
                     /\ Len(res[1].bitdata) = 8 * res[1].numchars
                     /\ PackBytes(res[1].bitdata) = KnownUtf8Text(text)

\* A text with characters of 1, 2, 3 and 4 bytes became one byte segment with
\* more bytes than the text has characters.
C15_Witness ==
    /\ pc = "segs"
    /\ Len(args.parts) = 1
    /\ \A cp \in {107, 233, 8364, 128512} : \E i \in 1..Len(args.parts[1]) : args.parts[1][i] = cp
    /\ Len(res) = 1
    /\ res[1].mode = BYTE
    /\ res[1].numchars > Len(args.parts[1])

\* C16 as it reads: the segment of a text over the alphabet has
\* ceil(11 * len / 2) - (len mod 2) * 5 data bits.
C16_Original ==
    (pc = "alphanumeric" /\ InAlphabet(args.parts[1])) =>
        Len(res[1].bitdata) = ((11 * Len(args.parts[1]) + 1) \div 2)
                                  - (Len(args.parts[1]) % 2) * 5

\* C16: make_alphanumeric on a text over the alphabet returns a segment, not an
\* error, with ceil(11 * len / 2) data bits: 11 for every pair of characters
\* and 6 for a remaining one.
C16_AlphanumericBits ==
    (pc = "alphanumeric" /\ InAlphabet(args.parts[1])) =>
        /\ DOMAIN res[1] = {"mode", "numchars", "bitdata"}
        /\ res[1].mode = ALPHANUMERIC
        /\ Len(res[1].bitdata) = (11 * Len(args.parts[1]) + 1) \div 2
        /\ Len(res[1].bitdata) = 11 * (Len(args.parts[1]) \div 2) + 6 * (Len(args.parts[1]) % 2)

\* A text of an odd number of characters, three or more, not all of them
\* digits, was encoded.
C16_Witness ==
    /\ pc = "alphanumeric"
    /\ InAlphabet(args.parts[1])
    /\ ~AllDigits(args.parts[1])
    /\ Len(args.parts[1]) % 2 = 1
    /\ Len(args.parts[1]) >= 3
    /\ Len(res[1].bitdata) > 11

\* C17: make_numeric on a text of digits returns a segment with
\* 10 * floor(len / 3) data bits plus 0, 4 or 7 for len mod 3 = 0, 1 or 2, and
\* a character count of len.
C17_NumericBits ==
    (pc = "numeric" /\ AllDigits(args.parts[1])) =>
        /\ DOMAIN res[1] = {"mode", "numchars", "bitdata"}
        /\ res[1].mode = NUMERIC
        /\ Len(res[1].bitdata) = 10 * (Len(args.parts[1]) \div 3)
                                     + <<0, 4, 7>>[(Len(args.parts[1]) % 3) + 1]
        /\ res[1].numchars = Len(args.parts[1])

\* A text of digits with a last group of two digits after at least one group of
\* three was encoded.
C17_Witness ==
    /\ pc = "numeric"
    /\ AllDigits(args.parts[1])
    /\ Len(args.parts[1]) % 3 = 2
    /\ Len(args.parts[1]) >= 5
    /\ res[1].numchars = Len(args.parts[1])

\* C19: when encode_segments reaches the constructor, the bit buffer holds
\* exactly 8 * _get_num_data_codewords(version, ecl) bits for the final level,
\* and the data codewords number raw_data_modules / 8 minus the error
\* correction codewords per block times the number of blocks, which is what
\* _add_ecc_and_interleave asserts.
C19_DataCodewordCount ==
    (pc = "data" /\ res2.sel.status = "ok") =>
        /\ Len(res2.bits) = 8 * get_num_data_codewords(res2.sel.version, res2.sel.ecl)
        /\ Len(res2.datacodewords) =
               get_num_raw_data_modules(res2.sel.version) \div 8
                   - ECC_CODEWORDS_PER_BLOCK[res2.sel.ecl.ordinal + 1][res2.sel.version + 1]
                     * NUM_ERROR_CORRECTION_BLOCKS[res2.sel.ecl.ordinal + 1][res2.sel.version + 1]

\* Two segments were encoded at a boosted level, and their bits ended off a
\* byte boundary with room left for pad bytes.
C19_Witness ==
    /\ pc = "data"
    /\ res2.sel.status = "ok"
    /\ Len(res) = 2
    /\ res2.sel.ecl # args.ecl
    /\ res2.sel.datausedbits % 8 \in {1, 2, 3}
    /\ Len(res2.bits) - res2.sel.datausedbits > 16

\* The mode indicator, the character count and the payload of each segment,
\* one segment after the other.
RECURSIVE SegmentsLayout(_, _)
SegmentsLayout(segs, version) ==
    IF segs = <<>> THEN <<>>
    ELSE BitsOf(Head(segs).mode.modebits, 4)
             \o BitsOf(Head(segs).numchars, num_char_count_bits(Head(segs).mode, version))
             \o Head(segs).bitdata
             \o SegmentsLayout(Tail(segs), version)

\* 0xEC and 0x11 bit by bit
PadBits == << <<1, 1, 1, 0, 1, 1, 0, 0>>, <<0, 0, 0, 1, 0, 0, 0, 1>> >>

\* C20: the bit buffer of encode_segments is the segments (mode indicator in 4
\* bits, character count, payload), then min(4, capacity - len) zero bits, then
\* zero bits up to the byte boundary, then the bytes 0xEC, 0x11, 0xEC, ... up
\* to the capacity of the final level.
C20_BitStringLayout ==
    (pc = "data" /\ res2.sel.status = "ok") =>
        LET body     == SegmentsLayout(res, res2.sel.version)
            capacity == 8 * get_num_data_codewords(res2.sel.version, res2.sel.ecl)
            term     == Min(4, capacity - Len(body))
            aligned  == ((Len(body) + term + 7) \div 8) * 8
        IN  /\ Len(body) <= capacity
            /\ aligned <= capacity
            /\ Len(res2.bits) = capacity
            /\ \A i \in 1..capacity :
                  res2.bits[i] =
                      IF i <= Len(body) THEN body[i]
                      ELSE IF i <= aligned THEN 0
                      ELSE PadBits[(((i - aligned - 1) \div 8) % 2) + 1][((i - aligned - 1) % 8) + 1]

\* Two segments left less than 4 bits of the capacity, so that the terminator
\* was cut short.
C20_Witness ==
    /\ pc = "data"
    /\ res2.sel.status = "ok"
    /\ Len(res) = 2
    /\ Len(res2.bits) - res2.sel.datausedbits \in 1..3

(***************************************************************************)
(* get_total_bits and its use by the version search (SpecSelect).          *)
(***************************************************************************)
\* Some segment has a character count that does not fit its field at version v.
CountOverflows(segs, v) ==
    \E i \in 1..Len(segs) : segs[i].numchars >= 2 ^ num_char_count_bits(segs[i].mode, v)

\* 4 bits of mode, the character count field and the payload, for every segment.
RECURSIVE HeaderAndPayloadBits(_, _)
HeaderAndPayloadBits(segs, v) ==
    IF segs = <<>> THEN 0
    ELSE 4 + num_char_count_bits(Head(segs).mode, v) + Head(segs).bitlen
           + HeaderAndPayloadBits(Tail(segs), v)

\* Version v is passed over: a count overflows, or the bits exceed the capacity.
PassedOver(segs, ecl, v) ==
    \/ CountOverflows(segs, v)
    \/ HeaderAndPayloadBits(segs, v) > 8 * get_num_data_codewords(v, ecl)

\* C21: get_total_bits is the sum of 4 + char_count_bits + payload bits over
\* the segments, and None exactly when some character count is 2^char_count_bits
\* or more; the version search passes over a version where it is None as over
\* one that is too small, so that the result is the first version of the range
\* with no overflow and enough capacity, and DataTooLongError says "Segment too
\* long" exactly when the count still overflows at the last version.
C21_TotalBits ==
    (pc = "done" /\ ~InvalidValue(args.minversion, args.maxversion, args.mask)) =>
        /\ res.status \in {"ok", "DataTooLongError"}
        /\ res.status = "ok" =>
              /\ ~CountOverflows(args.segs, res.version)
              /\ res.datausedbits = HeaderAndPayloadBits(args.segs, res.version)
              /\ res.datausedbits # None
              /\ \A v \in args.minversion..(res.version - 1) :
                     PassedOver(args.segs, args.ecl, v)
        /\ res.status = "DataTooLongError" =>
              /\ \A v \in args.minversion..args.maxversion :
                     PassedOver(args.segs, args.ecl, v)
              /\ (res.msg.text = "Segment too long")
                     <=> CountOverflows(args.segs, args.maxversion)
              /\ ~CountOverflows(args.segs, args.maxversion) =>
                     res.msg.used = HeaderAndPayloadBits(args.segs, args.maxversion)

\* A segment whose bits would fit the first version of the range but whose
\* character count overflows there was encoded at a later version.
C21_Witness ==
    /\ pc = "done"
    /\ res.status = "ok"
    /\ args.minversion < res.version
    /\ CountOverflows(args.segs, args.minversion)
    /\ HeaderAndPayloadBits(args.segs, args.minversion)
           <= 8 * get_num_data_codewords(args.minversion, args.ecl)

(***************************************************************************)
(* Specification SpecBits: one call of _BitBuffer.append_bits on a buffer. *)
(***************************************************************************)
\* Values of 0 to 31 bits, and a negative one
AppendValues == {-1, 0, 1, 2, 5, 17, 236, 255, 256, 1023, 2 ^ 30, (2 ^ 30 - 1) * 2 + 1}

AppendBuffers == {<<>>, <<1>>, <<0, 1, 1>>}

InitBits ==
    /\ pc = "call"
    /\ args \in [bb : AppendBuffers, val : AppendValues, n : -1..MaxAppend]
    /\ res = NoResult
    /\ res2 = <<>>

\* bb.append_bits(val, n): ValueError is raised before the buffer is touched
\* (line 888), or the bits are appended (line 890). res2 is the buffer after.
AppendBits ==
    /\ pc = "call"
    /\ IF append_bits_raises(args.val, args.n)
       THEN /\ res' = Raised("ValueError", [text |-> "Value out of range",
                                            used |-> None, cap |-> None])
            /\ res2' = args.bb
       ELSE /\ res' = [NoResult EXCEPT !.status = "ok"]
            /\ res2' = append_bits(args.bb, args.val, args.n)
    /\ pc' = "done"
    /\ UNCHANGED args

NextBits == AppendBits

SpecBits == InitBits /\ [][NextBits]_vars

\* val is negative or has a 1 at position n or above (n >= 0).
BitsAbove(val, n) == val < 0 \/ (n <= 30 /\ val >= 2 ^ n)

\* The number that a sequence of bits spells, most significant bit first, from
\* bit i on.
ValueOfBits[bits \in Seq(Nat), i \in Nat, acc \in Nat] ==
    IF i > Len(bits) THEN acc ELSE ValueOfBits[bits, i + 1, 2 * acc + bits[i]]

\* What append_bits is to do when it does not fail: the buffer keeps its bits
\* and gains exactly n, which spell val.
AppendedRight ==
    /\ res.status = "ok"
    /\ Len(res2) = Len(args.bb) + args.n
    /\ SubSeq(res2, 1, Len(args.bb)) = args.bb
    /\ \A k \in (Len(args.bb) + 1)..Len(res2) : res2[k] \in {0, 1}
    /\ ValueOfBits[SubSeq(res2, Len(args.bb) + 1, Len(res2)), 1, 0] = args.val

FailedUnchanged == res.status = "ValueError" /\ res2 = args.bb

\* C22 as it reads: the call fails, the buffer unchanged, if n < 0, n > 31 or
\* val has bits above position n - 1, and appends n bits otherwise.
C22_Original ==
    pc = "done" =>
        IF args.n < 0 \/ args.n > 31 \/ BitsAbove(args.val, args.n)
        THEN FailedUnchanged
        ELSE AppendedRight

\* C22: append_bits(val, n) fails with ValueError, the buffer unchanged, if
\* n < 0 or val has bits set above position n - 1; otherwise, also for n > 31,
\* it appends exactly n bits, most significant first.
C22_AppendBits ==
    pc = "done" =>
        IF args.n < 0 \/ BitsAbove(args.val, args.n)
        THEN FailedUnchanged
        ELSE AppendedRight

\* A value of 8 bits was appended in 32 bits or more to a buffer that was not
\* empty.
C22_Witness ==
    /\ pc = "done"
    /\ args.n > 31
    /\ args.val = 236
    /\ args.bb # <<>>
    /\ res.status = "ok"
    /\ Len(res2) = Len(args.bb) + args.n

(***************************************************************************)
(* Specification SpecEcc: _add_ecc_and_interleave on the data codewords of *)
(* a version and level.                                                    *)
(***************************************************************************)
\* The data codewords b, b + a, b + 2a, ... (mod 256), as many as the version
\* and level hold.
EccData(version, ecl, a, b) ==
    AsList([i \in 1..get_num_data_codewords(version, ecl) |-> (b + (i - 1) * a) % 256])

InitEcc ==
    /\ pc = "call"
    /\ \E version \in MIN_VERSION..MaxEccVersion, ecl \in Ecc,
          ab \in {<<1, 0>>, <<7, 3>>, <<83, 236>>, <<0, 17>>} :
            args = [version |-> version, ecl |-> ecl,
                    data |-> EccData(version, ecl, ab[1], ab[2])]
    /\ res = <<>>
    /\ res2 = <<>>

\* The constructor's call self._add_ecc_and_interleave(bytearray(datacodewords))
AddEccAndInterleave ==
    /\ pc = "call"
    /\ res' = add_ecc_and_interleave(args.version, args.ecl, args.data)
    /\ pc' = "done"
    /\ UNCHANGED <<args, res2>>

NextEcc == AddEccAndInterleave

SpecEcc == InitEcc /\ [][NextEcc]_vars

\* The number of blocks, the error correction bytes per block and the number of
\* short blocks of a version and level, and the bytes of a short block.
BlocksOf(version, ecl) == NUM_ERROR_CORRECTION_BLOCKS[ecl.ordinal + 1][version + 1]
EccLenOf(version, ecl) == ECC_CODEWORDS_PER_BLOCK[ecl.ordinal + 1][version + 1]
ShortBlocksOf(version, ecl) ==
    BlocksOf(version, ecl) - ((get_num_raw_data_modules(version) \div 8) % BlocksOf(version, ecl))
ShortLenOf(version, ecl) == (get_num_raw_data_modules(version) \div 8) \div BlocksOf(version, ecl)

\* The data bytes of block j (0-based) and where they start in the data: the
\* first short blocks have short_len - ecc_len bytes and the others one more.
BlockDataLen(version, ecl, j) ==
    ShortLenOf(version, ecl) - EccLenOf(version, ecl)
        + (IF j < ShortBlocksOf(version, ecl) THEN 0 ELSE 1)
BlockDataStart(version, ecl, j) ==
    j * (ShortLenOf(version, ecl) - EccLenOf(version, ecl))
        + (IF j > ShortBlocksOf(version, ecl) THEN j - ShortBlocksOf(version, ecl) ELSE 0)

\* At every version and level the blocks, the short ones first, take up the
\* data codewords exactly, and with their error correction bytes the raw
\* codewords.
BlocksFillEveryVersion ==
    \A v \in MIN_VERSION..MAX_VERSION, e \in Ecc :
        /\ 1 <= ShortBlocksOf(v, e) /\ ShortBlocksOf(v, e) <= BlocksOf(v, e)
        /\ ShortLenOf(v, e) - EccLenOf(v, e) >= 1
        /\ BlockDataStart(v, e, BlocksOf(v, e)) = get_num_data_codewords(v, e)
        /\ get_num_data_codewords(v, e) + BlocksOf(v, e) * EccLenOf(v, e)
               = get_num_raw_data_modules(v) \div 8

\* C23: the result has raw_data_modules / 8 bytes; the blocks take up the data
\* end to end, the short ones first; column by column the result holds byte i
\* of every block's data, then the last byte of the long blocks, then byte i of
\* every block's error correction, which is the Reed-Solomon remainder of that
\* block's data; every byte of the data and of each remainder lands in one
\* place of the result.
C23_BlocksInterleaved ==
    pc = "done" =>
      /\ BlocksFillEveryVersion
      /\ LET v        == args.version
            e        == args.ecl
            nb       == BlocksOf(v, e)
            ecclen   == EccLenOf(v, e)
            nshort   == ShortBlocksOf(v, e)
            datalen  == ShortLenOf(v, e) - ecclen
            rsdiv    == reed_solomon_compute_divisor(ecclen)
            ecc      == [j \in 0..(nb - 1) |->
                            reed_solomon_compute_remainder(
                                SubSeq(args.data, BlockDataStart(v, e, j) + 1,
                                       BlockDataStart(v, e, j) + BlockDataLen(v, e, j)),
                                rsdiv)]
        IN  /\ Len(res) = get_num_raw_data_modules(v) \div 8
            /\ BlockDataStart(v, e, nb) = Len(args.data)
            /\ Len(res) = Len(args.data) + nb * ecclen
            /\ \A j \in 0..(nb - 1) :
                  /\ Len(ecc[j]) = ecclen
                  /\ \A i \in 0..(datalen - 1) :
                        res[i * nb + j + 1] = args.data[BlockDataStart(v, e, j) + i + 1]
                  /\ j >= nshort =>
                        res[datalen * nb + (j - nshort) + 1]
                            = args.data[BlockDataStart(v, e, j) + datalen + 1]
                  /\ \A i \in 0..(ecclen - 1) :
                        res[Len(args.data) + i * nb + j + 1] = ecc[j][i + 1]
            /\ Cardinality({i * nb + j : i \in 0..(datalen - 1), j \in 0..(nb - 1)}
                           \cup {datalen * nb + (j - nshort) : j \in nshort..(nb - 1)}
                           \cup {Len(args.data) + i * nb + j :
                                     i \in 0..(ecclen - 1), j \in 0..(nb - 1)})
                   = Len(res)

\* Data for short and for long blocks, with bytes that differ from one to the
\* next, was split and interleaved.
C23_Witness ==
    /\ pc = "done"
    /\ ShortBlocksOf(args.version, args.ecl) >= 2
    /\ ShortBlocksOf(args.version, args.ecl) < BlocksOf(args.version, args.ecl)
    /\ args.data[1] # args.data[2]
    /\ Len(res) = get_num_raw_data_modules(args.version) \div 8

(***************************************************************************)
(* Specification SpecMultiply: _reed_solomon_multiply on two and on three  *)
(* arguments.                                                              *)
(***************************************************************************)
\* Second arguments: the multiples of MulStride, the ends of the range and the
\* values on either side of it
MulSeconds == {k * MulStride : k \in 0..(255 \div MulStride)} \cup {-1, 1, 2, 255, 256}

MulThirds == {1, 2, 142, 255}

InitMultiply ==
    /\ pc = "call"
    /\ args \in [x : -1..256, y : MulSeconds, z : MulThirds]
    /\ res = <<>>
    /\ res2 = <<>>

\* The products xy, yx, (xy)z and x(yz); a call that raises ValueError gives
\* None, and so does a call on the None of another.
Multiply ==
    /\ pc = "call"
    /\ res' = [xy   |-> reed_solomon_multiply(args.x, args.y),
               yx   |-> reed_solomon_multiply(args.y, args.x),
               xy_z |-> reed_solomon_multiply(reed_solomon_multiply(args.x, args.y), args.z),
               x_yz |-> reed_solomon_multiply(args.x, reed_solomon_multiply(args.y, args.z))]
    /\ pc' = "done"
    /\ UNCHANGED <<args, res2>>

NextMultiply == Multiply

SpecMultiply == InitMultiply /\ [][NextMultiply]_vars

\* C28: on 0..255 the product is in 0..255, multiply(x, 1) = x, the order of
\* the arguments does not matter, and (xy)z = x(yz); ValueError is raised when
\* an argument is outside 0..255.
C28_MultiplyLaws ==
    pc = "done" =>
        IF args.x \in 0..255 /\ args.y \in 0..255
        THEN /\ res.xy \in 0..255
             /\ args.y = 1 => res.xy = args.x
             /\ res.xy = res.yx
             /\ res.xy_z \in 0..255
             /\ res.xy_z = res.x_yz
        ELSE res.xy = None /\ res.yx = None

\* Two elements with their high bits set were multiplied, and the product by a
\* third one, which takes the reduction by 0x11D.
C28_Witness ==
    /\ pc = "done"
    /\ args.x >= 128 /\ args.x <= 255
    /\ args.y >= 128 /\ args.y <= 255
    /\ args.x # args.y
    /\ args.z = 142
    /\ res.xy \notin {0, args.x, args.y}
    /\ res.xy_z = res.x_yz

(***************************************************************************)
(* Specification SpecRs: the divisor of a degree of the tables and the     *)
(* remainder of a block of data.                                           *)
(***************************************************************************)
\* The numbers of error correction codewords per block that the table holds
EccDegrees ==
    {ECC_CODEWORDS_PER_BLOCK[e][v + 1] : e \in 1..4, v \in MIN_VERSION..MAX_VERSION}

\* Blocks of n bytes b, b + a, b + 2a, ... (mod 256)
RsBlock(n, a, b) == AsList([i \in 1..n |-> (b + (i - 1) * a) % 256])

RsBlocks ==
    {RsBlock(n, ab[1], ab[2]) :
        n \in {1, 2, 9, 19, MaxBlockLen}, ab \in {<<1, 0>>, <<83, 236>>}}

InitRs ==
    /\ pc = "call"
    /\ args \in [degree : EccDegrees, data : RsBlocks]
    /\ res = <<>>
    /\ res2 = <<>>

\* rsdiv = _reed_solomon_compute_divisor(degree), then
\* ecc = _reed_solomon_compute_remainder(data, rsdiv) (lines 355 and 360)
RsResult(data, divisor) ==
    [divisor |-> divisor, remainder |-> reed_solomon_compute_remainder(data, divisor)]

ComputeRemainder ==
    /\ pc = "call"
    /\ res' = RsResult(args.data, reed_solomon_compute_divisor(args.degree))
    /\ pc' = "done"
    /\ UNCHANGED <<args, res2>>

NextRs == ComputeRemainder

SpecRs == InitRs /\ [][NextRs]_vars

\* 2^i in the field, for i = n more doublings of acc
PowerOfTwo[n \in Nat, acc \in Nat] ==
    IF n = 0 THEN acc ELSE PowerOfTwo[n - 1, reed_solomon_multiply(acc, 2)]

\* The value at x of the polynomial whose coefficients are coefs, highest power
\* first, from coefficient i on (Horner's rule; addition in the field is
\* exclusive or).
PolynomialAt[coefs \in Seq(Nat), x \in Nat, i \in Nat, acc \in Nat] ==
    IF i > Len(coefs) THEN acc
    ELSE PolynomialAt[coefs, x, i + 1, Xor(reed_solomon_multiply(acc, x), coefs[i])]

\* C29: for every degree d of the table, the remainder of a block by the
\* divisor of degree d has d bytes, and the block followed by its remainder is
\* a polynomial that is zero at 2^0, 2^1, ..., 2^(d-1).
C29_RemainderIsCodeword ==
    pc = "done" =>
        /\ Len(res.divisor) = args.degree
        /\ Len(res.remainder) = args.degree
        /\ \A k \in 1..args.degree : res.remainder[k] \in 0..255
        /\ \A i \in 0..(args.degree - 1) :
              PolynomialAt[args.data \o res.remainder, PowerOfTwo[i, 1], 1, 0] = 0

\* The longest block with the most error correction bytes got a remainder that
\* is not all zero.
C29_Witness ==
    /\ pc = "done"
    /\ args.degree = 30
    /\ Len(args.data) >= 40
    /\ \E k \in 1..Len(res.remainder) : res.remainder[k] # 0

(***************************************************************************)
(* Specification SpecDraw: the constructor QrCode(version, errcorlvl,      *)
(* datacodewords, msk) one call at a time (lines 180-202).  res holds the  *)
(* object's grids and the constructor's local variables msk and            *)
(* minpenalty, with i the next trial mask.                                 *)
(***************************************************************************)
\* [[False] * size for _ in range(size)] (lines 180-181)
BlankGrid(size) == AsList([y \in 1..size |-> AsList([x \in 1..size |-> FALSE])])

\* The constructor's arguments: every mask forced and the automatic choice at a
\* few versions, and for every version a call whose
\* data codewords have the wrong length (it fails at line 343, after the function
\* patterns were drawn).
DrawArgs ==
    {[version |-> v, errcorlvl |-> e, datacodewords |-> EccData(v, e, ab[1], ab[2]), msk |-> m] :
        v \in {MIN_VERSION, 2, MaxDrawVersion}, e \in Ecc,
        ab \in {<<7, 3>>, <<83, 236>>}, m \in 0..7}
    \cup
    {[version |-> v, errcorlvl |-> e, datacodewords |-> EccData(v, e, ab[1], ab[2]), msk |-> -1] :
        v \in {MIN_VERSION, 2, MaxDrawVersion}, e \in Ecc, ab \in {<<83, 236>>}}
    \cup
    {[version |-> v, errcorlvl |-> LOW, datacodewords |-> <<>>, msk |-> 0] :
        v \in MIN_VERSION..MAX_VERSION}

InitDraw ==
    /\ pc = "new"
    /\ args \in DrawArgs
    /\ res = [modules    |-> BlankGrid(args.version * 4 + 17),
              isfunction |-> BlankGrid(args.version * 4 + 17),
              msk        |-> args.msk,
              minpenalty |-> MAX_PENALTY + 1,
              i          |-> 0]
    /\ res2 = <<>>

\* Line 184: self._draw_function_patterns()
DrawFunctionPatterns ==
    /\ pc = "new"
    /\ res' = [res EXCEPT
                 !.modules    = draw_function_patterns(args.version, args.errcorlvl).modules,
                 !.isfunction = draw_function_patterns(args.version, args.errcorlvl).isfunction]
    /\ pc' = "patterns"
    /\ UNCHANGED <<args, res2>>

\* Whether the assertions of lines 343, 379 and 396 hold when the codewords all
\* of datacodewords are drawn as drawn
CodewordsAsserted(version, errcorlvl, datacodewords, drawn) ==
    /\ Len(datacodewords) = get_num_data_codewords(version, errcorlvl)
    /\ drawn.asserted

\* Lines 185-186 when an assertion fails: of line 343 for data codewords of the
\* wrong length
DrawCodewordsFails ==
    /\ pc = "patterns"
    /\ ~CodewordsAsserted(args.version, args.errcorlvl, args.datacodewords,
            draw_codewords(res, args.version,
                add_ecc_and_interleave(args.version, args.errcorlvl, args.datacodewords)))
    /\ pc' = "raised"
    /\ res2' = Raised("AssertionError", [text |-> "assert", used |-> None, cap |-> None])
    /\ UNCHANGED <<args, res>>

\* The grid and the local variable allcodewords after line 186
CodewordsDrawn(allcodewords, drawn) ==
    /\ res' = [res EXCEPT !.modules = drawn.modules]
    /\ res2' = allcodewords

\* Lines 185-186: allcodewords = self._add_ecc_and_interleave(...) and
\* self._draw_codewords(allcodewords)
DrawCodewordsOf(allcodewords) ==
    /\ CodewordsAsserted(args.version, args.errcorlvl, args.datacodewords,
                         draw_codewords(res, args.version, allcodewords))
    /\ CodewordsDrawn(allcodewords, draw_codewords(res, args.version, allcodewords))

DrawCodewords ==
    /\ pc = "patterns"
    /\ DrawCodewordsOf(add_ecc_and_interleave(args.version, args.errcorlvl,
                                              args.datacodewords))
    /\ pc' = "codewords"
    /\ UNCHANGED args

\* Line 192: self._apply_mask(i) of a trial
ApplyTrialMask ==
    /\ pc \in {"codewords", "undone"}
    /\ args.msk = -1
    /\ res.i < 8
    /\ res' = [res EXCEPT !.modules =
                 apply_mask(res.modules, res.isfunction, args.version * 4 + 17, res.i)]
    /\ pc' = "trial_masked"
    /\ UNCHANGED <<args, res2>>

\* Line 193: self._draw_format_bits(i) of a trial
DrawTrialFormatBits ==
    /\ pc = "trial_masked"
    /\ res' = [res EXCEPT !.modules =
                 draw_format_bits(res.modules, args.version * 4 + 17, args.errcorlvl, res.i)]
    /\ pc' = "trial_format"
    /\ UNCHANGED <<args, res2>>

\* The comparison of lines 195-197 for the penalty of trial mask i
ComparePenalty(st, penalty) ==
    [st EXCEPT !.msk        = IF penalty < st.minpenalty THEN st.i ELSE st.msk,
               !.minpenalty = IF penalty < st.minpenalty THEN penalty ELSE st.minpenalty]

\* Lines 194-197: the penalty of the trial and the comparison
ScoreTrial ==
    /\ pc = "trial_format"
    /\ res' = ComparePenalty(res, get_penalty_score(res.modules, args.version * 4 + 17))
    /\ pc' = "trial_scored"
    /\ UNCHANGED <<args, res2>>

\* Line 198: self._apply_mask(i) again, and the end of iteration i
UndoTrialMask ==
    /\ pc = "trial_scored"
    /\ res' = [res EXCEPT !.modules =
                 apply_mask(res.modules, res.isfunction, args.version * 4 + 17, res.i),
                          !.i = res.i + 1]
    /\ pc' = "undone"
    /\ UNCHANGED <<args, res2>>

\* Lines 199-201: the assertion on msk, which holds after the loop or for a
\* forced mask, and self._apply_mask(msk)
ApplyFinalMask ==
    /\ \/ pc = "codewords" /\ args.msk # -1
       \/ pc = "undone" /\ res.i = 8
    /\ 0 <= res.msk /\ res.msk <= 7
    /\ res' = [res EXCEPT !.modules =
                 apply_mask(res.modules, res.isfunction, args.version * 4 + 17, res.msk)]
    /\ pc' = "masked"
    /\ UNCHANGED <<args, res2>>

\* Line 202: self._draw_format_bits(msk)
DrawFinalFormatBits ==
    /\ pc = "masked"
    /\ res' = [res EXCEPT !.modules =
                 draw_format_bits(res.modules, args.version * 4 + 17, args.errcorlvl,
                                  res.msk)]
    /\ pc' = "done"
    /\ UNCHANGED <<args, res2>>

NextDraw ==
    \/ DrawFunctionPatterns
    \/ DrawCodewordsFails
    \/ DrawCodewords
    \/ ApplyTrialMask
    \/ DrawTrialFormatBits
    \/ ScoreTrial
    \/ UndoTrialMask
    \/ ApplyFinalMask
    \/ DrawFinalFormatBits

SpecDraw == InitDraw /\ [][NextDraw]_vars

\* 1 for a dark module at (x, y), 0 for a light one
Cell(modules, x, y) == IF modules[y + 1][x + 1] THEN 1 ELSE 0

\* The number whose bit k - 1 is the module at cells[k]
ReadBits(modules, cells) ==
    SumOf[AsList([k \in 1..Len(cells) |->
              Cell(modules, cells[k][1], cells[k][2]) * (2 ^ (k - 1))]),
          Len(cells), 0]

\* Where bit i of the format bits lies in the copy around the top-left finder,
\* and in the copy split between the top-right and bottom-left finders
FormatFirstCell(i) ==
    IF i <= 5 THEN <<8, i>>
    ELSE IF i = 6 THEN <<8, 7>>
    ELSE IF i = 7 THEN <<8, 8>>
    ELSE IF i = 8 THEN <<7, 8>>
    ELSE <<14 - i, 8>>
FormatSecondCell(size, i) ==
    IF i <= 7 THEN <<size - 1 - i, 8>> ELSE <<8, size - 15 + i>>
FormatFirstCopy(modules) ==
    ReadBits(modules, AsList([k \in 1..15 |-> FormatFirstCell(k - 1)]))
FormatSecondCopy(modules, size) ==
    ReadBits(modules, AsList([k \in 1..15 |-> FormatSecondCell(size, k - 1)]))

\* Where bit i of the version information lies in its two copies
VersionFirstCopy(modules, size) ==
    ReadBits(modules, AsList([k \in 1..18 |-> <<size - 11 + ((k - 1) % 3), (k - 1) \div 3>>]))
VersionSecondCopy(modules, size) ==
    ReadBits(modules, AsList([k \in 1..18 |-> <<(k - 1) \div 3, size - 11 + ((k - 1) % 3)>>]))

\* The remainder of the polynomial v over GF(2), of degree at most top, by the
\* generator g of degree deg
PolyRemainder[v \in Nat, g \in Nat, deg \in Nat, top \in Nat] ==
    IF top < deg THEN v
    ELSE PolyRemainder[IF get_bit(v, top) THEN Xor(v, g * (2 ^ (top - deg))) ELSE v,
                       g, deg, top - 1]

\* bits is the format word of (formatbits, mask): XORed with 0x5412 it is a
\* multiple of the generator 0x537 whose five high bits are formatbits << 3 | mask.
IsFormatWord(bits, formatbits, mask) ==
    /\ Xor(bits, 21522) \div 1024 = formatbits * 8 + mask
    /\ PolyRemainder[Xor(bits, 21522), 1335, 10, 14] = 0

\* bits is the version word: a multiple of the generator 0x1F25 whose six high
\* bits are the version.
IsVersionWord(bits, version) ==
    /\ bits \div 4096 = version
    /\ PolyRemainder[bits, 7973, 12, 17] = 0

\* C24: the format bits are written last.  Until the final mask is applied the
\* format modules hold a placeholder (mask 0 of _draw_function_patterns, or the
\* last trial mask 7 after automatic selection); in the finished symbol they
\* encode the level and the committed mask, BCH remainder and 0x5412 included.
\* The version-information modules hold the version word at every step, whatever
\* the mask.
C24_FormatBitsLast ==
    /\ pc = "done" =>
          /\ IsFormatWord(FormatFirstCopy(res.modules), args.errcorlvl.formatbits, res.msk)
          /\ args.msk # -1 => res.msk = args.msk
    /\ pc \in {"patterns", "codewords"} =>
          IsFormatWord(FormatFirstCopy(res.modules), args.errcorlvl.formatbits, 0)
    /\ pc = "masked" =>
          IsFormatWord(FormatFirstCopy(res.modules), args.errcorlvl.formatbits,
                       IF args.msk = -1 THEN 7 ELSE 0)
    /\ (pc # "new" /\ args.version >= 7) =>
          /\ IsVersionWord(VersionFirstCopy(res.modules, args.version * 4 + 17), args.version)
          /\ IsVersionWord(VersionSecondCopy(res.modules, args.version * 4 + 17), args.version)

\* The constructor chose a mask that is neither the placeholder nor the last
\* trial, for a symbol with version information, and finished.
C24_Witness ==
    /\ pc = "done"
    /\ args.msk = -1
    /\ res.msk \notin {0, 7}
    /\ args.version >= 7

\* C25: in every finished symbol the copy of the format bits around the top-left
\* finder and the copy split between the top-right and bottom-left finders are
\* the same 15 bits, and the module at (8, size - 8) is dark.
C25_FormatCopiesAgree ==
    pc = "done" =>
        /\ \A i \in 0..14 :
              Cell(res.modules, FormatFirstCell(i)[1], FormatFirstCell(i)[2])
                  = Cell(res.modules, FormatSecondCell(args.version * 4 + 17, i)[1],
                         FormatSecondCell(args.version * 4 + 17, i)[2])
        /\ Cell(res.modules, 8, args.version * 4 + 17 - 8) = 1

\* A finished symbol of the largest version drawn, whose format bits are those of
\* a level and a mask that are not 0
C25_Witness ==
    /\ pc = "done"
    /\ args.version = MaxDrawVersion
    /\ args.errcorlvl = QUARTILE
    /\ res.msk = 5
    /\ FormatFirstCopy(res.modules) = FormatSecondCopy(res.modules, args.version * 4 + 17)
    /\ FormatFirstCopy(res.modules) \notin {0, 32767}

\* Modules that are function modules in every symbol of the version: the timing
\* patterns, the finder patterns with their separators, the format bits, the
\* version information and the alignment pattern nearest the bottom-right corner.
KnownFunctionCell(version, size, x, y) ==
    \/ x = 6 \/ y = 6
    \/ x <= 7 /\ y <= 7
    \/ x >= size - 8 /\ y <= 7
    \/ x <= 7 /\ y >= size - 8
    \/ x = 8 /\ (y <= 8 \/ y >= size - 8)
    \/ y = 8 /\ (x <= 8 \/ x >= size - 8)
    \/ version >= 7 /\ size - 11 <= x /\ x <= size - 9 /\ y <= 5
    \/ version >= 7 /\ size - 11 <= y /\ y <= size - 9 /\ x <= 5
    \/ version >= 2 /\ Abs(x - (size - 7)) <= 2 /\ Abs(y - (size - 7)) <= 2

\* The mask that the step from the current state applies, when it is one of the
\* calls of _apply_mask: the trial mask i (lines 192 and 198) or the final msk.
MaskOfStep == IF pc' = "masked" THEN res.msk ELSE res.i

\* What a call of _apply_mask(m) did to the grid: module (x, y) changed if and
\* only if the pattern of m is 0 there and the module is not a function module.
FlippedByMask(before, after, isfunction, size, m) ==
    \A x \in 0..(size - 1), y \in 0..(size - 1) :
        (after[y + 1][x + 1] # before[y + 1][x + 1])
            <=> (MASK_PATTERNS(m, x, y) = 0 /\ ~isfunction[y + 1][x + 1])

\* C26: every call of _apply_mask, in a trial (lines 192 and 198) and for the
\* final mask (line 201), flips module (x, y) if and only if the mask's pattern
\* is 0 at (x, y) and the module is not a function module; the timing, finder,
\* alignment, format and version modules are marked as function modules and are
\* left as they were.
C26_ApplyMask ==
    [][pc' \in {"trial_masked", "undone", "masked"} =>
          /\ FlippedByMask(res.modules, res'.modules, res.isfunction,
                           args.version * 4 + 17, MaskOfStep)
          /\ \A x \in 0..(args.version * 4 + 16), y \in 0..(args.version * 4 + 16) :
                KnownFunctionCell(args.version, args.version * 4 + 17, x, y) =>
                    /\ res.isfunction[y + 1][x + 1]
                    /\ res'.modules[y + 1][x + 1] = res.modules[y + 1][x + 1]
          /\ res'.isfunction = res.isfunction]_vars

\* A trial of mask 3 on a symbol with version information: the pattern is 0 at
\* the dark corner (0, 0) of a finder, which is still dark, and at (9, 9), which
\* is not a function module.
C26_Witness ==
    /\ pc = "trial_masked"
    /\ res.i = 3
    /\ args.version >= 7
    /\ MASK_PATTERNS(3, 0, 0) = 0
    /\ res.isfunction[1][1]
    /\ res.modules[1][1]
    /\ MASK_PATTERNS(3, 9, 9) = 0
    /\ ~res.isfunction[10][10]

\* The modules of a grid that are not function modules, and the dark ones
\* among them
DataCells(isfunction, size) ==
    {c \in (1..size) \X (1..size) : ~isfunction[c[2]][c[1]]}
DarkDataCells(modules, isfunction, size) ==
    {c \in (1..size) \X (1..size) : ~isfunction[c[2]][c[1]] /\ modules[c[2]][c[1]]}

\* The number of 1 bits in a sequence of bytes
DarkBits(data) ==
    Cardinality({k \in 0..(Len(data) * 8 - 1) : get_bit(data[k \div 8 + 1], k % 8)})

\* C27: after _draw_function_patterns the modules not marked as function modules
\* are _get_num_raw_data_modules(version) many, for every version, and all are
\* light.  _draw_codewords passes its assertions (len(data) is that number // 8
\* and all 8 * len(data) bits are written), changes no function module, and
\* leaves as many dark data modules as the codewords have 1 bits: the modules
\* left light are the 0 bits and the raw_data_modules mod 8 remainder modules.
C27_DataModules ==
    [][/\ pc' = "patterns" =>
             /\ Cardinality(DataCells(res'.isfunction, args.version * 4 + 17))
                    = get_num_raw_data_modules(args.version)
             /\ DarkDataCells(res'.modules, res'.isfunction, args.version * 4 + 17) = {}
       /\ pc' = "codewords" =>
             /\ Len(res2') = get_num_raw_data_modules(args.version) \div 8
             /\ res'.isfunction = res.isfunction
             /\ \A c \in (1..(args.version * 4 + 17)) \X (1..(args.version * 4 + 17)) :
                    res.isfunction[c[2]][c[1]] =>
                        res'.modules[c[2]][c[1]] = res.modules[c[2]][c[1]]
             /\ Cardinality(DarkDataCells(res'.modules, res'.isfunction,
                                          args.version * 4 + 17))
                    = DarkBits(res2')
             /\ Cardinality(DataCells(res'.isfunction, args.version * 4 + 17))
                    - Cardinality(DarkDataCells(res'.modules, res'.isfunction,
                                                args.version * 4 + 17))
                    = (Len(res2') * 8 - DarkBits(res2'))
                          + (get_num_raw_data_modules(args.version) % 8)]_vars

\* The codewords of a version 2 symbol were drawn: 7 remainder modules stay
\* light next to the 0 bits of the codewords.
C27_Witness ==
    /\ pc = "codewords"
    /\ args.version = 2
    /\ get_num_raw_data_modules(args.version) % 8 = 7
    /\ Len(res2) * 8 = get_num_raw_data_modules(args.version) - 7
    /\ Cardinality(DarkDataCells(res.modules, res.isfunction, 25)) = DarkBits(res2)
    /\ DarkBits(res2) > 0

(***************************************************************************)
(* Specification SpecBalance: the balance term of _get_penalty_score       *)
(* (lines 465-471) for a grid of a version's size with dark dark modules.  *)
(***************************************************************************)
BalanceSizes ==
    {v * 4 + 17 : v \in {v \in MIN_VERSION..MAX_VERSION : (v - MIN_VERSION) % BalanceStride = 0}}

InitBalance ==
    /\ pc = "call"
    /\ \E size \in BalanceSizes : \E dark \in 0..(size * size) :
          args = [size |-> size, dark |-> dark, total |-> size * size]
    /\ res = <<>>
    /\ res2 = <<>>

\* Lines 466-471: total, k, the assertion 0 <= k <= 9 and the term added to result
Balance ==
    /\ pc = "call"
    /\ res' = [k        |-> BalanceK(args.dark, args.total),
               asserted |-> 0 <= BalanceK(args.dark, args.total)
                            /\ BalanceK(args.dark, args.total) <= 9,
               term     |-> BalanceK(args.dark, args.total) * PENALTY_N4]
    /\ pc' = "done"
    /\ UNCHANGED <<args, res2>>

NextBalance == Balance

SpecBalance == InitBalance /\ [][NextBalance]_vars

\* C30: for an odd total and every dark count, k is the smallest integer k >= 0
\* with |20 dark - 10 total| <= (k + 1) total, which is
\* ceil(|20 dark - 10 total| / total) - 1; it lies in 0..9, so the assertion
\* holds, and the term is 10 k.
C30_Balance ==
    pc = "done" =>
        /\ args.total % 2 = 1
        /\ res.k >= 0
        /\ Abs(20 * args.dark - 10 * args.total) <= (res.k + 1) * args.total
        /\ \A j \in 0..9 :
              Abs(20 * args.dark - 10 * args.total) <= (j + 1) * args.total => res.k <= j
        /\ Abs(20 * args.dark - 10 * args.total) > res.k * args.total
        /\ res.k <= 9
        /\ res.asserted
        /\ res.term = res.k * 10

\* No module is dark: |20 dark - 10 total| is exactly 10 total and k is 9
C30_Witness ==
    /\ pc = "done"
    /\ args.dark = 0
    /\ Abs(20 * args.dark - 10 * args.total) = 10 * args.total
    /\ res.k = 9
    /\ res.term = 90


====
